---- MODULE Spec2Model ----
(***************************************************************************)
(* A model of the Aggify pipeline builder (src/aggify/aggify.py), its      *)
(* match compiler (src/aggify/compiler.py) and utilities                   *)
(* (src/aggify/utilty.py).                                                 *)
(*                                                                         *)
(* A builder is a stage list (pipelines) and a pointer (base) to the field *)
(* map of its private copy of the model class.  Field maps live in a heap  *)
(* of class objects so that sharing between the caller's model, the        *)
(* builder's copy and classes registered by lookup is explicit.            *)
(*                                                                         *)
(* Every builder method is an operator from a builder state                *)
(* [pipelines, heap, base] to an outcome [st, res]: res is "ok" or the     *)
(* name of the exception raised, st the state left behind (including what  *)
(* a method had already changed when it raised).                           *)
(*                                                                         *)
(* Python values are modelled as follows: a keyword key "a__b__c" is the   *)
(* sequence of its "__"-separated segments <<"a","b","c">>; literal values *)
(* are strings (the value None is the string "None", which is also what    *)
(* str.format renders it as); a dict is a function from its keys.          *)
(***************************************************************************)
EXTENDS Integers, Sequences, FiniteSets, TLC

VARIABLES
    pipelines,  \* Aggify.pipelines: the ordered stage list
    heap,       \* class objects: heap[c] is the field map (_fields) of class c
    base,       \* the class whose field map is self.base_model._fields
    op,         \* the last builder call: its method name and arguments
    res,        \* its outcome: "ok" or the exception raised
    pre,        \* the builder state [pipelines, heap, base] before that call
    objs        \* the objects behind the caller's Q and F values (see below)

vars == <<pipelines, heap, base, op, res, pre, objs>>

(***************************************************************************)
(* Bounds of the model.                                                    *)
(***************************************************************************)
\* Builder calls are made while the stage list is shorter than this.
MaxStages == 3
\* Integers used as indices and slice bounds range over -1 .. MaxIndex.
MaxIndex == 2
\* Q and F values are built while objs holds fewer objects than this.
MaxObjects == 6

(***************************************************************************)
(* The declared models (those of src/tests/test_query.py, cut down to the  *)
(* fields that differ in kind).  A field descriptor is                     *)
(*   t      "plain" | "ref" (ReferenceField) | "emb" (EmbeddedDocumentField)*)
(*          | "cls" (a document class registered by lookup)                *)
(*   db     the db_field attribute, "" when it is None or absent           *)
(*   target the class the field refers to (NoClass when none)              *)
(***************************************************************************)
NoClass == 0
PostDocument == 1
AccountDocument == 2
PostStat == 3
\* An embedded document declared inside PostStat
StatDetail == 4

Plain(db) == [t |-> "plain", db |-> db, target |-> NoClass]

\* mongoengine_fields.IntField() as created by the builder: no db_field yet.
IntField == Plain("")

PostFields ==
    [f \in {"id", "owner", "caption", "stat"} |->
        CASE f = "id"      -> Plain("_id")
          [] f = "owner"   -> [t |-> "ref", db |-> "owner_id", target |-> AccountDocument]
          [] f = "caption" -> Plain("caption")
          [] f = "stat"    -> [t |-> "emb", db |-> "stat", target |-> PostStat]]

AccountFields ==
    [f \in {"id", "username", "deleted_at"} |->
        CASE f = "id"         -> Plain("_id")
          [] f = "username"   -> Plain("username")
          [] f = "deleted_at" -> Plain("deleted_at")]

PostStatFields ==
    [f \in {"like_count", "detail"} |->
        CASE f = "like_count" -> Plain("like_count")
          [] f = "detail"     -> [t |-> "emb", db |-> "detail", target |-> StatDetail]]

StatDetailFields == [f \in {"views"} |-> Plain("view_count")]

\* _meta["collection"] of a document class.
Collection(c) ==
    CASE c = PostDocument    -> "post_document"
      [] c = AccountDocument -> "account"
      [] OTHER               -> "none"

DeclaredHeap == <<PostFields, AccountFields, PostStatFields, StatDetailFields>>

(***************************************************************************)
(* Outcomes.                                                               *)
(***************************************************************************)
St(p, h, b) == [pipelines |-> p, heap |-> h, base |-> b]
Ok(st) == [st |-> st, res |-> "ok"]
Raise(st, e) == [st |-> st, res |-> e]

Fields(st) == st.heap[st.base]
SetFields(st, fm) == [st EXCEPT !.heap[st.base] = fm]
AppendStage(st, s) == [st EXCEPT !.pipelines = Append(@, s)]
LastStage(p) == p[Len(p)]

\* dict.update: the entries of b replace or extend those of a.
Update(a, b) == [k \in DOMAIN a \cup DOMAIN b |-> IF k \in DOMAIN b THEN b[k] ELSE a[k]]
EmptyDict == [k \in {} |-> ""]

(***************************************************************************)
(* utilty.copy_class: type(name, bases, dict(cls.__dict__)).  The bases    *)
(* are mongoengine documents, so the call is dispatched to their metaclass,*)
(* which builds the new class its own _fields dict out of the field        *)
(* attributes: the copy has a fresh field map with the same entries.       *)
(* The result is the heap with the new class and the new class.            *)
(***************************************************************************)
\* A faulty variant: the copy shares the original's class object
copy_class_shared(h, c) == [heap |-> h, cls |-> c]

copy_class(h, c) == [heap |-> Append(h, h[c]), cls |-> Len(h) + 1]

(***************************************************************************)
(* Stages.                                                                 *)
(***************************************************************************)
MatchStage(m) == [kind |-> "$match", m |-> m]
SkipStage(n) == [kind |-> "$skip", n |-> n]
LimitStage(n) == [kind |-> "$limit", n |-> n]
\* {"$out": coll} (form "str") or {"$out": {"db": db, "coll": coll}} (form "dict")
OutStage(coll, hasDb, db) ==
    [kind |-> "$out", form |-> IF hasDb THEN "dict" ELSE "str", coll |-> coll, db |-> db]

\* stage.get("$match") and stage.get("$out") taken as truth values.
MatchTruthy(s) == s.kind = "$match" /\ DOMAIN s.m # {}
OutTruthy(s) == s.kind = "$out" /\ (s.form = "dict" \/ s.coll # "")

(***************************************************************************)
(* aggify.last_out_stage_check: the decorator of the guarded methods.      *)
(* out is the outcome of the decorated method on st.                       *)
(***************************************************************************)
last_out_stage_check(st, out) ==
    IF Len(st.pipelines) > 0 /\ OutTruthy(LastStage(st.pipelines))
    THEN Raise(st, "OutStageError")
    ELSE out

(***************************************************************************)
(* utilty.to_mongo_positive_index.  An index is                            *)
(*   [int |-> TRUE, n |-> k]                       the integer k           *)
(*   [int |-> FALSE, start, stop, hasStep, step]   slice(start, stop, step)*)
(* The result is [ok, start, stop]; ok = FALSE is MongoIndexError.         *)
(***************************************************************************)
IndexError == [ok |-> FALSE, start |-> 0, stop |-> 0]
Slice(a, b) == [ok |-> TRUE, start |-> a, stop |-> b]

to_mongo_positive_index(index) ==
    IF index.int
    THEN IF index.n < 0 THEN IndexError ELSE Slice(0, index.n)
    ELSE IF index.hasStep THEN IndexError
         ELSE IF index.start > index.stop THEN IndexError
         ELSE IF index.start < 0 THEN IndexError
         ELSE Slice(index.start, index.stop)

(***************************************************************************)
(* Aggify.__getitem__                                                      *)
(***************************************************************************)
\* A faulty variant: the limit stage before the skip stage
getitem_swapped(st, index) ==
    LET s == to_mongo_positive_index(index) IN
    IF ~s.ok THEN Raise(st, "MongoIndexError")
    ELSE Ok(AppendStage(AppendStage(st, LimitStage(s.stop - s.start)), SkipStage(s.start)))

getitem_body(st, index) ==
    LET s == to_mongo_positive_index(index) IN
    IF ~s.ok THEN Raise(st, "MongoIndexError")
    ELSE Ok(AppendStage(AppendStage(st, SkipStage(s.start)), LimitStage(s.stop - s.start)))

getitem(st, index) == last_out_stage_check(st, getitem_body(st, index))

(***************************************************************************)
(* Aggify.out (not decorated)                                              *)
(***************************************************************************)
out(st, coll, hasDb, db) == Ok(AppendStage(st, OutStage(coll, hasDb, db)))

(***************************************************************************)
(* Aggify.__combine_sequential_matches                                     *)
(***************************************************************************)
\* The loop from stage i on: merged is merged_pipeline, cur the match_stage
\* being built (has = FALSE when it is None).
RECURSIVE CombineLoop(_, _, _, _, _)
CombineLoop(p, i, merged, has, cur) ==
    IF i > Len(p)
    THEN IF has /\ DOMAIN cur # {} THEN Append(merged, MatchStage(cur)) ELSE merged
    ELSE IF MatchTruthy(p[i])
         THEN IF ~has
              THEN CombineLoop(p, i + 1, merged, TRUE, p[i].m)
              ELSE CombineLoop(p, i + 1, merged, TRUE, Update(cur, p[i].m))
         ELSE IF has /\ DOMAIN cur # {}
              THEN CombineLoop(p, i + 1, Append(Append(merged, MatchStage(cur)), p[i]), FALSE, EmptyDict)
              ELSE CombineLoop(p, i + 1, Append(merged, p[i]), has, cur)

\* A faulty variant: nothing is merged
combine_sequential_matches_none(p) == p

\* A faulty variant: the stage after a run of match stages is not carried
\* over
RECURSIVE WithoutFollowers(_, _)
WithoutFollowers(p, i) ==
    IF i > Len(p) THEN <<>>
    ELSE (IF i > 1 /\ MatchTruthy(p[i - 1]) /\ ~MatchTruthy(p[i]) THEN <<>> ELSE <<p[i]>>)
         \o WithoutFollowers(p, i + 1)
combine_sequential_matches_dropping(p) ==
    CombineLoop(WithoutFollowers(p, 1), 1, <<>>, FALSE, EmptyDict)

combine_sequential_matches(p) == CombineLoop(p, 1, <<>>, FALSE, EmptyDict)

(***************************************************************************)
(* Field resolution (utilty.py, Aggify.get_model_field,                    *)
(* Aggify.get_field_name_recursively).  c is a class of heap h; NoClass    *)
(* stands for base_model = None.                                           *)
(***************************************************************************)
HasField(h, c, field) == c # NoClass /\ field \in DOMAIN h[c]

\* utilty.get_db_field: the storage name, or the name itself when the field
\* is absent, is a class (no db_field attribute) or has db_field None.
get_db_field(h, c, field) ==
    IF ~HasField(h, c, field) THEN field
    ELSE LET d == h[c][field]
         IN  IF d.t = "cls" \/ d.db = "" THEN field ELSE d.db

\* base.__dict__.get("document_type_obj", base) for the object stored under
\* field: the target class of a relation, the class itself for a class
\* registered by lookup, NoClass for a plain field object (which has no
\* _fields: descending into it raises AttributeError).
Descend(h, c, field) ==
    LET d == h[c][field] IN IF d.t = "plain" THEN NoClass ELSE d.target

\* Aggify.get_field_name_recursively(field, base): field is the segment
\* sequence; the result is [res, name].
RECURSIVE ResolveLoop(_, _, _, _, _)
ResolveLoop(h, c, segs, i, acc) ==
    IF i > Len(segs) THEN [res |-> "ok", name |-> acc]
    ELSE IF c = NoClass THEN [res |-> "AttributeError", name |-> acc]
    ELSE IF ~HasField(h, c, segs[i]) THEN [res |-> "InvalidField", name |-> segs[i]]
    ELSE ResolveLoop(h, Descend(h, c, segs[i]), segs, i + 1,
                     IF i = 1 THEN get_db_field(h, c, segs[i])
                     ELSE acc \o "." \o get_db_field(h, c, segs[i]))

get_field_name_recursively(h, c, segs) == ResolveLoop(h, c, segs, 1, "")

(***************************************************************************)
(* compiler.Operators                                                      *)
(***************************************************************************)
REGEX_OPERATORS ==
    {"iexact", "contains", "icontains", "startswith", "istartswith",
     "endswith", "iendswith"}
COMPARISON_OPERATORS == {"lt", "lte", "gt", "gte"}
QUERY_OPERATORS == REGEX_OPERATORS \cup {"exact", "in", "nin", "ne", "not"}
ALL_OPERATORS == QUERY_OPERATORS \cup COMPARISON_OPERATORS

\* Operators.ALL_OPERATORS[operator]
MongoOperator(operator) ==
    IF operator \in REGEX_OPERATORS THEN "$regex"
    ELSE IF operator = "exact" THEN "$eq"
    ELSE "$" \o operator

\* Operators.REGEX_PATTERNS[operator].format(value=value)
RegexPattern(operator, v) ==
    CASE operator = "iexact" -> "^" \o v \o "$"
      [] operator \in {"contains", "icontains"} -> v
      [] operator \in {"startswith", "istartswith"} -> "^" \o v
      [] operator \in {"endswith", "iendswith"} -> v \o "$"

\* A faulty variant of RegexOptions: no operator carries an option
RegexOptions_none(operator) == ""

\* Operators.REGEX_OPTIONS.get(operator), "" when absent
RegexOptions(operator) ==
    IF operator \in {"iexact", "icontains", "istartswith", "iendswith"} THEN "i" ELSE ""

\* A keyword value: a literal (isF = FALSE, v its text) or an F expression
\* (isF = TRUE, v its to_dict()).
Lit(v) == [isF |-> FALSE, v |-> v]
\* F(field) for a field name without "__": to_dict() is "$field"
FField(field) == [isF |-> TRUE, v |-> "$" \o field]
\* The constraint stored under a key of a match dict:
\*   {key: value}                         op = ""
\*   {key: {op: value}}                   op = "$gt", ...
\*   {key: {"$regex": p, "$options": o}}  op = "$regex", opt = o ("" when absent)
Constraint(o, v, opt) == [op |-> o, val |-> v, opt |-> opt]
\*   {"$expr": {op: [lhs, rhs]}}
ExprConstraint(o, lhs, rhs) == [op |-> o, lhs |-> lhs, rhs |-> rhs]

\* A faulty variant of compile_match: an F value is taken with the
\* comparison operators only
compile_match_comparison_only(mq, operator, value, field) ==
    IF operator \in REGEX_OPERATORS
    THEN IF value.isF THEN [res |-> "ValueError", m |-> mq]
         ELSE [res |-> "ok",
               m |-> Update(mq, field :> Constraint("$regex",
                                RegexPattern(operator, value.v), RegexOptions(operator)))]
    ELSE IF operator \in ALL_OPERATORS
    THEN IF value.isF
         THEN IF operator \notin COMPARISON_OPERATORS THEN [res |-> "ValueError", m |-> mq]
              ELSE [res |-> "ok",
                    m |-> Update(mq, "$expr" :> ExprConstraint(MongoOperator(operator),
                                                               "$" \o field, value.v))]
         ELSE [res |-> "ok",
               m |-> Update(mq, field :> Constraint(MongoOperator(operator), value.v, ""))]
    ELSE [res |-> "ok", m |-> mq]

\* Operators.compile_match on match_query mq: [res, m].
compile_match(mq, operator, value, field) ==
    IF operator \in REGEX_OPERATORS
    THEN IF value.isF THEN [res |-> "ValueError", m |-> mq]
         ELSE [res |-> "ok",
               m |-> Update(mq, field :> Constraint("$regex",
                                RegexPattern(operator, value.v), RegexOptions(operator)))]
    ELSE IF operator \in ALL_OPERATORS
    THEN IF value.isF
         THEN [res |-> "ok",
               m |-> Update(mq, "$expr" :> ExprConstraint(MongoOperator(operator),
                                                          "$" \o field, value.v))]
         ELSE [res |-> "ok",
               m |-> Update(mq, field :> Constraint(MongoOperator(operator), value.v, ""))]
    ELSE [res |-> "ok", m |-> mq]

(***************************************************************************)
(* compiler.Match                                                          *)
(***************************************************************************)
\* Match.is_base_model_field
is_base_model_field(h, c, field) ==
    HasField(h, c, field) /\ h[c][field].t \in {"emb", "cls"}

\* utilty.get_nested_field_model: the model itself when the field is a class
\* (its __dict__ has "__module__"), else the field's document_type_obj.
get_nested_field_model(h, c, field) ==
    IF h[c][field].t = "cls" THEN c ELSE h[c][field].target

\* Match(matches, base_model).compile(pipelines): matches is the sequence of
\* [key, value] entries, p the list handed in; the result is [res, m, p]
\* with m the match_query and p the list as the call left it.
RECURSIVE CompileLoop(_, _, _, _, _, _)
CompileLoop(h, c, matches, i, mq, p) ==
    IF i > Len(matches) THEN [res |-> "ok", m |-> mq, p |-> p]
    ELSE
    LET key == matches[i].key
        value == matches[i].value
    IN
    IF Len(key) = 1
    THEN IF value.isF THEN [res |-> "InvalidOperator", m |-> mq, p |-> p]
         ELSE CompileLoop(h, c, matches, i + 1,
                          Update(mq, get_db_field(h, c, key[1]) :> Constraint("", value.v, "")), p)
    ELSE
    LET field == key[1]
        operator == key[2]
        others == SubSeq(key, 3, Len(key))
    IN
    IF is_base_model_field(h, c, field) /\ operator \notin ALL_OPERATORS
    THEN LET nested == get_db_field(h, get_nested_field_model(h, c, field), operator)
             newkey == <<get_db_field(h, c, field) \o "." \o nested>> \o others
             inner == CompileLoop(h, c, <<[key |-> newkey, value |-> value]>>, 1, EmptyDict, <<>>)
         IN  IF inner.res # "ok" THEN [res |-> inner.res, m |-> mq, p |-> p]
             ELSE CompileLoop(h, c, matches, i + 1, mq, Append(p, MatchStage(inner.m)))
    ELSE IF operator \notin ALL_OPERATORS
    THEN [res |-> "InvalidOperator", m |-> mq, p |-> p]
    ELSE LET r == compile_match(mq, operator, value, get_db_field(h, c, field))
         IN  IF r.res # "ok" THEN [res |-> r.res, m |-> mq, p |-> p]
             ELSE CompileLoop(h, c, matches, i + 1, r.m, p)

Match_compile(h, c, matches, p) == CompileLoop(h, c, matches, 1, EmptyDict, p)

\* Q(**conditions).conditions: compiled with base_model None and a list of
\* its own; an invalid key raises in the constructor.
Q(conditions) == Match_compile(DeclaredHeap, NoClass, conditions, <<>>)


(***************************************************************************)
(* Aggify.unwind                                                           *)
(***************************************************************************)
\* {"$unwind": "$path"} (form "str") or {"$unwind": {"path": ..., ...}}
\* (form "dict"; includeArrayIndex "" when the key is absent).
UnwindStage(form, path, preserve, idx) ==
    [kind |-> "$unwind", form |-> form, path |-> path, preserve |-> preserve,
     includeArrayIndex |-> idx]

unwind_body(st, path, include_array_index, preserve) ==
    LET r == get_field_name_recursively(st.heap, st.base, path) IN
    IF r.res # "ok" THEN Raise(st, r.res)
    ELSE IF include_array_index = "" /\ ~preserve
    THEN Ok(AppendStage(st, UnwindStage("str", "$" \o r.name, FALSE, "")))
    ELSE Ok(AppendStage(st, UnwindStage("dict", "$" \o r.name, preserve, include_array_index)))

unwind(st, path, include_array_index, preserve) ==
    last_out_stage_check(st, unwind_body(st, path, include_array_index, preserve))

(***************************************************************************)
(* Aggify.__lookup and Aggify.__to_aggregate                               *)
(***************************************************************************)
\* {"$lookup": {from, localField, foreignField, as}} (form "fields") or
\* {"$lookup": {from, let, pipeline, as}} (form "let")
LookupStage(from, local, foreign, as) ==
    [kind |-> "$lookup", form |-> "fields", from |-> from, localField |-> local,
     foreignField |-> foreign, let |-> EmptyDict, pipeline |-> <<>>, as |-> as]

\* k.replace("__", ".", 1) on a key given by its segments
ReplaceFirstSep(key) ==
    IF Len(key) = 1 THEN key
    ELSE <<key[1] \o "." \o key[2]>> \o SubSeq(key, 3, Len(key))

\* The inner loop of the join branch: the matches of all entries of query
\* whose leading segment is lead; [res, st, matches].
RECURSIVE JoinMatches(_, _, _, _, _)
JoinMatches(st, query, lead, j, matches) ==
    IF j > Len(query) THEN [res |-> "ok", st |-> st, matches |-> matches]
    ELSE IF query[j].key[1] # lead THEN JoinMatches(st, query, lead, j + 1, matches)
    ELSE LET r == Match_compile(st.heap, st.base,
                     <<[key |-> ReplaceFirstSep(query[j].key), value |-> query[j].value]>>,
                     st.pipelines)
             st2 == [st EXCEPT !.pipelines = r.p]
         IN  IF r.res # "ok" THEN [res |-> r.res, st |-> st2, matches |-> matches]
             ELSE JoinMatches(st2, query, lead, j + 1,
                              IF DOMAIN r.m # {} THEN Append(matches, r.m) ELSE matches)

RECURSIVE ExtendMatches(_, _, _)
ExtendMatches(st, matches, j) ==
    IF j > Len(matches) THEN st
    ELSE ExtendMatches(AppendStage(st, MatchStage(matches[j])), matches, j + 1)

\* A faulty variant of JoinStages: the match stages before the join stage
JoinStages_matches_first(st, d, as_name, matches) ==
    LET st3 == AppendStage(ExtendMatches(st, matches, 1),
                           LookupStage(Collection(d.target), d.db, "_id", as_name))
    IN  unwind(st3, <<as_name>>, "", TRUE)

\* The stages of one batch (lines 290-298): the join stage, the unwind of
\* as_name with preserve=True, then one match stage for each match.
JoinStages(st, d, as_name, matches) ==
    LET st3 == AppendStage(st, LookupStage(Collection(d.target), d.db, "_id", as_name))
        u == unwind(st3, <<as_name>>, "", TRUE)
    IN  IF u.res # "ok" THEN u ELSE Ok(ExtendMatches(u.st, matches, 1))

\* Whether the entry takes the match branch (lines 259-270).
TakesMatchBranch(d, key) ==
    \/ d.t = "cls"
    \/ d.t = "plain"
    \/ d.t = "emb"
    \/ Len(key) = 1
    \/ (Len(key) = 2 /\ key[2] \in ALL_OPERATORS)

\* The loop over query.items() from entry i on.
RECURSIVE AggregateLoop(_, _, _)
AggregateLoop(st, query, i) ==
    IF i > Len(query) THEN Ok(st)
    ELSE
    LET key == query[i].key IN
    \* get_model_field(self.base_model, split_query[0])
    IF ~HasField(st.heap, st.base, key[1]) THEN Raise(st, "InvalidField")
    ELSE
    LET d == Fields(st)[key[1]] IN
    IF TakesMatchBranch(d, key)
    THEN LET r == Match_compile(st.heap, st.base, <<query[i]>>, st.pipelines)
             st2 == [st EXCEPT !.pipelines = r.p]
         IN  IF r.res # "ok" THEN Raise(st2, r.res)
             ELSE AggregateLoop(IF DOMAIN r.m # {} THEN AppendStage(st2, MatchStage(r.m)) ELSE st2,
                                query, i + 1)
    ELSE
    \* from_collection = join_field.document_type, local_field =
    \* join_field.db_field, as_name = join_field.name
    LET jm == JoinMatches(st, query, key[1], 1, <<>>) IN
    IF jm.res # "ok" THEN Raise(jm.st, jm.res)
    ELSE LET js == JoinStages(jm.st, d, key[1], jm.matches)
         IN  IF js.res # "ok" THEN js ELSE AggregateLoop(js.st, query, i + 1)

to_aggregate(st, query) == AggregateLoop(st, query, 1)

(***************************************************************************)
(* Aggify.filter.  arg is [given |-> FALSE] for None or                    *)
(* [given |-> TRUE, conditions |-> c] for a Q object with conditions c     *)
(* (a Q object of its own for every call).                                 *)
(***************************************************************************)
NoArg == [given |-> FALSE, conditions |-> EmptyDict]
QArg(c) == [given |-> TRUE, conditions |-> c]

Combined(st) == [st EXCEPT !.pipelines = combine_sequential_matches(@)]

filter_body(st, arg, kwargs) ==
    LET st1 == IF arg.given THEN AppendStage(st, MatchStage(arg.conditions)) ELSE st
        r == to_aggregate(st1, kwargs)
    IN  IF r.res # "ok" THEN r ELSE Ok(Combined(r.st))

filter(st, arg, kwargs) == last_out_stage_check(st, filter_body(st, arg, kwargs))

(***************************************************************************)
(* Aggify.raw: raw_query is the stage the caller hands in.                 *)
(***************************************************************************)
raw_body(st, raw_query) == Ok(Combined(AppendStage(st, raw_query)))

raw(st, raw_query) == last_out_stage_check(st, raw_body(st, raw_query))

(***************************************************************************)
(* Aggify.project.  kwargs is the sequence of [key, value] entries in call *)
(* order; a value is an integer or a string.                               *)
(***************************************************************************)
IntVal(n) == [isInt |-> TRUE, n |-> n, s |-> ""]
StrVal(s) == [isInt |-> FALSE, n |-> 0, s |-> s]

ProjectStage(projection) == [kind |-> "$project", projection |-> projection]

\* del d[k] for every k of keys
Remove(d, keys) == [k \in DOMAIN d \ keys |-> d[k]]

\* The loop over kwargs.items() (lines 97-107): [res, st, to_keep, projection]
RECURSIVE ProjectLoop(_, _, _, _, _)
ProjectLoop(st, kwargs, i, to_keep, projection) ==
    IF i > Len(kwargs)
    THEN [res |-> "ok", st |-> st, to_keep |-> to_keep, projection |-> projection]
    ELSE
    LET key == kwargs[i].key
        value == kwargs[i].value
        isOne == value.isInt /\ value.n = 1
        adds == ~isOne /\ key \notin DOMAIN Fields(st) /\ ~value.isInt
        st1 == IF adds THEN SetFields(st, Update(Fields(st), key :> IntField)) ELSE st
        keep1 == IF isOne \/ adds THEN to_keep \cup {key} ELSE to_keep
        proj1 == Update(projection, get_db_field(st1.heap, st1.base, key) :> value)
    IN  IF value.isInt /\ value.n = 0
        THEN IF key \notin DOMAIN Fields(st1)
             THEN [res |-> "KeyError", st |-> st1, to_keep |-> keep1, projection |-> proj1]
             ELSE ProjectLoop(SetFields(st1, Remove(Fields(st1), {key})),
                              kwargs, i + 1, keep1, proj1)
        ELSE ProjectLoop(st1, kwargs, i + 1, keep1, proj1)

\* A faulty variant of project_body: the identifier counts in the check
project_body_counting_id(st, kwargs) ==
    LET Has(n) == \E i \in 1..Len(kwargs) : kwargs[i].value = IntVal(n) IN
    IF Has(0) /\ Has(1) THEN Raise(st, "InvalidProjection")
    ELSE
    LET r == ProjectLoop(st, kwargs, 1, {"id"}, EmptyDict) IN
    IF r.res # "ok" THEN Raise(r.st, r.res)
    ELSE
    LET st2 == IF r.to_keep # {"id"}
               THEN SetFields(r.st, Remove(Fields(r.st), DOMAIN Fields(r.st) \ r.to_keep))
               ELSE r.st
    IN  Ok(AppendStage(st2, ProjectStage(r.projection)))

project_body(st, kwargs) ==
    LET filtered == {i \in 1..Len(kwargs) : kwargs[i].key # "id"}
        Has(n) == \E i \in filtered : kwargs[i].value = IntVal(n)
    IN
    IF Has(0) /\ Has(1) THEN Raise(st, "InvalidProjection")
    ELSE
    LET r == ProjectLoop(st, kwargs, 1, {"id"}, EmptyDict) IN
    IF r.res # "ok" THEN Raise(r.st, r.res)
    ELSE
    LET st2 == IF r.to_keep # {"id"}
               THEN SetFields(r.st, Remove(Fields(r.st), DOMAIN Fields(r.st) \ r.to_keep))
               ELSE r.st
    IN  Ok(AppendStage(st2, ProjectStage(r.projection)))

project(st, kwargs) == last_out_stage_check(st, project_body(st, kwargs))

(***************************************************************************)
(* Aggify.group.  expression is                                            *)
(*   [t |-> "none"]                  None                                  *)
(*   [t |-> "str", field |-> segs]   a field name                          *)
(*   [t |-> "list", fields |-> ...]  a list of field names                 *)
(*   [t |-> "dict", d |-> ...]       a mapping, taken as it is             *)
(* The _id of the stage is [t, s, d]: None, the string s or the dict d.    *)
(***************************************************************************)
NoneExpr == [t |-> "none", field |-> <<>>, fields |-> <<>>, d |-> EmptyDict]
StrExpr(segs) == [t |-> "str", field |-> segs, fields |-> <<>>, d |-> EmptyDict]
ListExpr(fs) == [t |-> "list", field |-> <<>>, fields |-> fs, d |-> EmptyDict]
DictExpr(d) == [t |-> "dict", field |-> <<>>, fields |-> <<>>, d |-> d]
\* no argument given
AbsentExpr == [t |-> "absent", field |-> <<>>, fields |-> <<>>, d |-> EmptyDict]

GroupId(t, s, d) == [t |-> t, s |-> s, d |-> d]
\* {"$group": {"_id": id, **acc}}: acc holds the annotations
GroupStage(id, acc) == [kind |-> "$group", id |-> id, acc |-> acc]

\* sep.join(segs)
RECURSIVE JoinSegs(_, _)
JoinSegs(segs, sep) ==
    IF Len(segs) = 0 THEN ""
    ELSE IF Len(segs) = 1 THEN segs[1]
    ELSE segs[1] \o sep \o JoinSegs(Tail(segs), sep)

\* The dict comprehension of lines 122-125: [res, d]
RECURSIVE GroupListLoop(_, _, _, _)
GroupListLoop(st, fs, i, d) ==
    IF i > Len(fs) THEN [res |-> "ok", d |-> d]
    ELSE LET r == get_field_name_recursively(st.heap, st.base, fs[i])
         IN  IF r.res # "ok" THEN [res |-> r.res, d |-> d]
             ELSE GroupListLoop(st, fs, i + 1, Update(d, JoinSegs(fs[i], "__") :> ("$" \o r.name)))

group_body(st, expression) ==
    CASE expression.t = "list" ->
            LET r == GroupListLoop(st, expression.fields, 1, EmptyDict)
            IN  IF r.res # "ok" THEN Raise(st, r.res)
                ELSE Ok(AppendStage(st, GroupStage(GroupId("dict", "", r.d), EmptyDict)))
      [] expression.t = "str" /\ expression.field = <<"">> ->
            \* the empty string is falsy: it is the grouping key as it is
            Ok(AppendStage(st, GroupStage(GroupId("str", "", EmptyDict), EmptyDict)))
      [] expression.t = "str" /\ expression.field # <<"">> ->
            LET r == get_field_name_recursively(st.heap, st.base, expression.field)
            IN  IF r.res = "ok"
                THEN Ok(AppendStage(st, GroupStage(GroupId("str", "$" \o r.name, EmptyDict), EmptyDict)))
                ELSE IF r.res = "InvalidField"
                THEN Ok(AppendStage(st, GroupStage(
                            GroupId("str", JoinSegs(expression.field, "__"), EmptyDict), EmptyDict)))
                ELSE Raise(st, r.res)
      [] expression.t = "dict" ->
            Ok(AppendStage(st, GroupStage(GroupId("dict", "", expression.d), EmptyDict)))
      [] OTHER ->
            Ok(AppendStage(st, GroupStage(GroupId("none", "", EmptyDict), EmptyDict)))

\* group() is group("id"): the default of the parameter
group(st, expression) ==
    last_out_stage_check(st, group_body(st, IF expression.t = "absent"
                                            THEN StrExpr(<<"id">>) ELSE expression))

(***************************************************************************)
(* Aggify.order_by.  An order field is [desc, name]: the string "-name"    *)
(* when desc, else "name" (names hold no hyphen).                          *)
(***************************************************************************)
SortStage(sort) == [kind |-> "$sort", sort |-> sort]

RECURSIVE SortDict(_, _, _, _)
SortDict(st, order_fields, i, d) ==
    IF i > Len(order_fields) THEN d
    ELSE SortDict(st, order_fields, i + 1,
                  Update(d, get_db_field(st.heap, st.base, order_fields[i].name)
                                :> (IF order_fields[i].desc THEN 0 - 1 ELSE 1)))

order_by_body(st, order_fields) ==
    Ok(AppendStage(st, SortStage(SortDict(st, order_fields, 1, EmptyDict))))

order_by(st, order_fields) == last_out_stage_check(st, order_by_body(st, order_fields))

(***************************************************************************)
(* Aggify.add_fields.  fields is the sequence of [key, value] entries, key *)
(* the segments of the keyword (without "$"), value [t, v] with t "str"    *)
(* for a string, "dict" for a list or dict taken as it is, "other" for a   *)
(* value of an unsupported type.                                           *)
(***************************************************************************)
AddFieldsStage(fields) == [kind |-> "$addFields", fields |-> fields]

\* The loop of lines 163-182: [res, st, fields]
RECURSIVE AddFieldsLoop(_, _, _, _)
AddFieldsLoop(st, fields, i, d) ==
    IF i > Len(fields) THEN [res |-> "ok", st |-> st, fields |-> d]
    ELSE
    LET field == JoinSegs(fields[i].key, ".")
        expression == fields[i].value
    IN  IF expression.t \notin {"str", "dict"}
        THEN [res |-> "AggifyValueError", st |-> st, fields |-> d]
        ELSE AddFieldsLoop(SetFields(st, Update(Fields(st), field :> IntField)), fields, i + 1,
                           Update(d, field :> [literal |-> expression.t = "str", v |-> expression.v]))

add_fields_body(st, fields) ==
    LET r == AddFieldsLoop(st, fields, 1, EmptyDict) IN
    IF r.res # "ok" THEN Raise(r.st, r.res)
    ELSE Ok(AppendStage(r.st, AddFieldsStage(r.fields)))

add_fields(st, fields) == last_out_stage_check(st, add_fields_body(st, fields))

(***************************************************************************)
(* Aggify.annotate (not decorated)                                         *)
(***************************************************************************)
\* The accumulators whose field type is a plain field object (FloatField,
\* ListField, IntField, DynamicField, DictField), and those whose field type
\* is EmbeddedDocumentField(EmbeddedDocument).
PlainAccumulators ==
    {"sum", "avg", "stdDevPop", "stdDevSamp", "push", "addToSet", "count", "max",
     "accumulator", "min", "median", "mergeObjects", "topN", "bottomN", "firstN",
     "lastN", "maxN"}
EmbeddedAccumulators == {"first", "last", "top", "bottom"}

\* Aggify._get_field_type_and_accumulator: [res, field_type, acc]
get_field_type_and_accumulator(accumulator) ==
    IF accumulator \in PlainAccumulators
    THEN [res |-> "ok", field_type |-> Plain(""), acc |-> "$" \o accumulator]
    ELSE IF accumulator \in EmbeddedAccumulators
    THEN [res |-> "ok", field_type |-> [t |-> "emb", db |-> "", target |-> NoClass],
          acc |-> "$" \o accumulator]
    ELSE [res |-> "AnnotationError: Invalid accumulator", field_type |-> Plain(""), acc |-> ""]

\* Aggify._get_annotate_value: f is [t, field, v], a string given by its
\* segments (t = "str") or another value v taken as it is; [res, v].
StrF(segs) == [t |-> "str", field |-> segs, v |-> ""]
OtherF(v) == [t |-> "other", field |-> <<>>, v |-> v]
\* an F object whose to_dict() is v
ExprF(v) == [t |-> "F", field |-> <<>>, v |-> v]

get_annotate_value(st, f) ==
    IF f.t = "str"
    THEN LET r == get_field_name_recursively(st.heap, st.base, f.field)
         IN  IF r.res = "ok" THEN [res |-> "ok", v |-> "$" \o r.name]
             ELSE IF r.res = "InvalidField" THEN [res |-> "ok", v |-> JoinSegs(f.field, "__")]
             ELSE [res |-> r.res, v |-> ""]
    ELSE [res |-> "ok", v |-> f.v]

\* An annotation {acc: value} of the group stage
Annotation(acc, v) == [acc |-> acc, v |-> v]

\* Aggify._do_annotate_with_expression: kwargs is the sequence of
\* [key, value] entries, a value being [isDict, acc, v]: the dict
\* {"$" + acc: v} or a value that is no dict.  The loop of lines 544-548
\* from entry i on: [res, st].
RECURSIVE AnnotateFieldsLoop(_, _, _)
AnnotateFieldsLoop(st, kwargs, i) ==
    IF i > Len(kwargs) THEN Ok(st)
    ELSE IF kwargs[i].key \in DOMAIN Fields(st) THEN AnnotateFieldsLoop(st, kwargs, i + 1)
    ELSE LET ta == get_field_type_and_accumulator(kwargs[i].value.acc)
         IN  IF ta.res # "ok" THEN Raise(st, ta.res)
             ELSE AnnotateFieldsLoop(
                      SetFields(st, Update(Fields(st), kwargs[i].key :> ta.field_type)),
                      kwargs, i + 1)

do_annotate_with_expression(st, kwargs) ==
    IF \E i \in 1..Len(kwargs) : ~kwargs[i].value.isDict
    THEN Raise(st, "InvalidAnnotateExpression")
    ELSE AnnotateFieldsLoop(st, kwargs, 1)

RECURSIVE AnnotationsOf(_, _, _)
AnnotationsOf(kwargs, i, d) ==
    IF i > Len(kwargs) THEN d
    ELSE AnnotationsOf(kwargs, i + 1,
             Update(d, kwargs[i].key :> Annotation("$" \o kwargs[i].value.acc, kwargs[i].value.v)))

\* self.pipelines[-1]["$group"].update(annotate)
\* An output key "_id" replaces the grouping key by the dict {acc: value}.
UpdateGroup(st, annotate) ==
    LET others == [k \in DOMAIN annotate \ {"_id"} |-> annotate[k]]
        st1 == [st EXCEPT !.pipelines[Len(st.pipelines)].acc = Update(@, others)]
    IN  IF "_id" \in DOMAIN annotate
        THEN [st1 EXCEPT !.pipelines[Len(st.pipelines)].id =
                  GroupId("dict", "", annotate["_id"].acc :> annotate["_id"].v)]
        ELSE st1

\* A faulty variant of annotate_check: one message for both failures
annotate_check_kindless(p) ==
    IF p = <<>> \/ LastStage(p).kind # "$group"
    THEN "AnnotationError: Annotations apply only to $group, your pipeline is empty"
    ELSE "ok"

\* The check of lines 394-403: "ok" or the AnnotationError raised.  The kind
\* of a stage is the first key of its dict.
annotate_check(p) ==
    IF p = <<>>
    THEN "AnnotationError: Annotations apply only to $group, your pipeline is empty"
    ELSE IF LastStage(p).kind # "$group"
    THEN "AnnotationError: Annotations apply only to $group, not to " \o LastStage(p).kind
    ELSE "ok"

annotate(st, annotate_name, accumulator, f, kwargs) ==
    LET c == annotate_check(st.pipelines) IN
    IF c # "ok" THEN Raise(st, c)
    ELSE IF kwargs = <<>>
    THEN LET ta == get_field_type_and_accumulator(accumulator) IN
         IF ta.res # "ok" THEN Raise(st, ta.res)
         ELSE LET value == get_annotate_value(st, f) IN
         IF value.res # "ok" THEN Raise(st, value.res)
         ELSE LET st1 == IF annotate_name \in DOMAIN Fields(st) THEN st
                         ELSE SetFields(st, Update(Fields(st), annotate_name :> ta.field_type))
              IN  Ok(UpdateGroup(st1, annotate_name :> Annotation(ta.acc, value.v)))
    ELSE LET r == do_annotate_with_expression(st, kwargs) IN
         IF r.res # "ok" THEN r
         ELSE Ok(UpdateGroup(r.st, AnnotationsOf(kwargs, 1, EmptyDict)))

(***************************************************************************)
(* utilty.convert_match_query and utilty.replace_values_recursive on the   *)
(* conditions of a Q object (a dict of constraints on literal values).     *)
(***************************************************************************)
\* The operators the conversion looks for (the last one without "$")
ConvertOperators == {"$eq", "$ne", "$gt", "$lt", "$gte", "lte"}

\* The key a constraint ends up under.  A dict keeps one entry per key; of
\* several constraints with the same operator the model keeps one of them.
ConvertedKey(m, k) == IF m[k].op \in ConvertOperators THEN m[k].op ELSE k

convert_match_query(m) ==
    [nk \in {ConvertedKey(m, k) : k \in DOMAIN m} |->
        LET k == CHOOSE k0 \in DOMAIN m : ConvertedKey(m, k0) = nk
        IN  IF m[k].op \in ConvertOperators
            THEN [converted |-> TRUE, op |-> m[k].op, lhs |-> "$" \o k, val |-> m[k].val,
                  opt |-> ""]
            ELSE [converted |-> FALSE, op |-> m[k].op, lhs |-> "", val |-> m[k].val,
                  opt |-> m[k].opt]]

\* A string leaf whose text without "$" is one of the names is replaced by
\* "$$" + name (leaves carry at most two "$", in front).
ReplaceLeaf(v, names) ==
    IF \E f \in names : v \in {f, "$" \o f, "$$" \o f}
    THEN "$$" \o (CHOOSE f \in names : v \in {f, "$" \o f, "$$" \o f})
    ELSE v

replace_values_recursive(obj, names) ==
    [k \in DOMAIN obj |->
        [obj[k] EXCEPT !.lhs = ReplaceLeaf(@, names), !.val = ReplaceLeaf(@, names)]]

(***************************************************************************)
(* Aggify.lookup.  from_collection is a declared class; query the sequence *)
(* of the conditions of the Q objects (<<>> for None); let the sequence of *)
(* field names (<<>> for None); local_field and foreign_field segments     *)
(* (<<>> for None); raw_let a dict (EmptyDict for None).                   *)
(***************************************************************************)
\* utilty.check_field_already_exists
check_field_already_exists(h, c, field) ==
    \E k \in DOMAIN h[c] :
        IF h[c][k].t = "cls" THEN k = field ELSE h[c][k].db # "" /\ h[c][k].db = field

LetLookupStage(from, let, pipeline, as) ==
    [kind |-> "$lookup", form |-> "let", from |-> from, localField |-> "",
     foreignField |-> "", let |-> let, pipeline |-> pipeline, as |-> as]

\* The dict comprehension of lines 705-708: [res, d]
RECURSIVE LetDictLoop(_, _, _, _)
LetDictLoop(st, let, i, d) ==
    IF i > Len(let) THEN [res |-> "ok", d |-> d]
    ELSE LET r == get_field_name_recursively(st.heap, st.base, let[i])
         IN  IF r.res # "ok" THEN [res |-> r.res, d |-> d]
             ELSE LetDictLoop(st, let, i + 1,
                      Update(d, JoinSegs(let[i], "__") :>
                                  ("$" \o get_db_field(st.heap, st.base, r.name))))

\* The loop of lines 712-727 over Q objects
LookupStages(query, let) ==
    [i \in 1..Len(query) |->
        [kind |-> "$match",
         expr |-> replace_values_recursive(convert_match_query(query[i]),
                      {JoinSegs(let[j], "__") : j \in 1..Len(let)})]]

\* self.base_model._fields[as_name] = copy_class(from_collection)
RegisterClass(st, as_name, from_collection) ==
    LET cc == copy_class(st.heap, from_collection)
        st1 == [st EXCEPT !.heap = cc.heap]
    IN  SetFields(st1, Update(Fields(st1),
                     as_name :> [t |-> "cls", db |-> "", target |-> cc.cls]))

\* A faulty variant of lookup_body: a correlated join needs no query
lookup_body_any_query(st, from_collection, as_name, query, let, local_field, foreign_field, raw_let) ==
    LET hasLet == let # <<>> \/ DOMAIN raw_let # {} IN
    IF check_field_already_exists(st.heap, st.base, as_name)
    THEN Raise(st, "AlreadyExistsField")
    ELSE IF ~hasLet /\ ~(local_field # <<>> /\ foreign_field # <<>>)
    THEN Raise(st, "InvalidArgument")
    ELSE IF ~hasLet
    THEN LET l == get_field_name_recursively(st.heap, st.base, local_field)
             f == get_field_name_recursively(st.heap, from_collection, foreign_field)
         IN  IF l.res # "ok" THEN Raise(st, l.res)
             ELSE IF f.res # "ok" THEN Raise(st, f.res)
             ELSE Ok(RegisterClass(
                      AppendStage(st, LookupStage(Collection(from_collection), l.name, f.name, as_name)),
                      as_name, from_collection))
    ELSE LET ld == LetDictLoop(st, let, 1, EmptyDict) IN
         IF ld.res # "ok" THEN Raise(st, ld.res)
         ELSE Ok(RegisterClass(
                  AppendStage(st, LetLookupStage(Collection(from_collection),
                                      Update(ld.d, raw_let), LookupStages(query, let), as_name)),
                  as_name, from_collection))

lookup_body(st, from_collection, as_name, query, let, local_field, foreign_field, raw_let) ==
    LET hasLet == let # <<>> \/ DOMAIN raw_let # {} IN
    IF check_field_already_exists(st.heap, st.base, as_name)
    THEN Raise(st, "AlreadyExistsField")
    ELSE IF ~hasLet /\ ~(local_field # <<>> /\ foreign_field # <<>>)
    THEN Raise(st, "InvalidArgument")
    ELSE IF ~hasLet
    THEN LET l == get_field_name_recursively(st.heap, st.base, local_field)
             f == get_field_name_recursively(st.heap, from_collection, foreign_field)
         IN  IF l.res # "ok" THEN Raise(st, l.res)
             ELSE IF f.res # "ok" THEN Raise(st, f.res)
             ELSE Ok(RegisterClass(
                      AppendStage(st, LookupStage(Collection(from_collection), l.name, f.name, as_name)),
                      as_name, from_collection))
    ELSE IF query = <<>> THEN Raise(st, "InvalidArgument")
    ELSE LET ld == LetDictLoop(st, let, 1, EmptyDict) IN
         IF ld.res # "ok" THEN Raise(st, ld.res)
         ELSE Ok(RegisterClass(
                  AppendStage(st, LetLookupStage(Collection(from_collection),
                                      Update(ld.d, raw_let), LookupStages(query, let), as_name)),
                  as_name, from_collection))

lookup(st, from_collection, as_name, query, let, local_field, foreign_field, raw_let) ==
    last_out_stage_check(st,
        lookup_body(st, from_collection, as_name, query, let, local_field, foreign_field, raw_let))

(***************************************************************************)
(* Aggify._replace_base, Aggify.replace_root, Aggify.replace_with.  merge  *)
(* is a dict (EmptyDict for None).                                         *)
(***************************************************************************)
\* [res, st, name].  For a class registered by lookup the builder's class
\* takes over that class's _fields dict: from then on both names denote one
\* field map.
replace_base(st, embedded_field) ==
    IF ~HasField(st.heap, st.base, embedded_field)
    THEN [res |-> "InvalidField", st |-> st, name |-> ""]
    ELSE
    LET model_field == Fields(st)[embedded_field]
        field_name == get_db_field(st.heap, st.base, embedded_field)
    IN  IF model_field.t = "cls"
        THEN [res |-> "ok", st |-> [st EXCEPT !.base = model_field.target],
              name |-> "$" \o field_name]
        ELSE IF model_field.t # "emb"
        THEN [res |-> "InvalidEmbeddedField", st |-> st, name |-> ""]
        ELSE [res |-> "ok", st |-> st, name |-> "$" \o field_name]

\* self.base_model._fields.update({key: IntField() for key in merge})
MergeFields(st, merge) ==
    SetFields(st, Update(Fields(st), [k \in DOMAIN merge |-> IntField]))

ReplaceStage(kind, name, merge) == [kind |-> kind, newRoot |-> name, merge |-> merge]

replace_root_body(st, embedded_field, merge) ==
    LET r == replace_base(st, embedded_field) IN
    IF r.res # "ok" THEN Raise(r.st, r.res)
    ELSE IF DOMAIN merge # {}
    THEN Ok(AppendStage(MergeFields(r.st, merge), ReplaceStage("$replaceRoot", r.name, merge)))
    ELSE Ok(AppendStage(r.st, ReplaceStage("$replaceRoot", r.name, EmptyDict)))

replace_root(st, embedded_field, merge) ==
    last_out_stage_check(st, replace_root_body(st, embedded_field, merge))

replace_with_body(st, embedded_field, merge) ==
    LET r == replace_base(st, embedded_field) IN
    IF r.res # "ok" THEN Raise(r.st, r.res)
    ELSE IF DOMAIN merge = {}
    THEN Ok(AppendStage(r.st, ReplaceStage("$replaceWith", r.name, EmptyDict)))
    ELSE Ok(AppendStage(MergeFields(r.st, merge), ReplaceStage("$replaceWith", r.name, merge)))

replace_with(st, embedded_field, merge) ==
    last_out_stage_check(st, replace_with_body(st, embedded_field, merge))

(***************************************************************************)
(* Aggify.redact and compiler.Cond                                         *)
(***************************************************************************)
\* Cond.OPERATOR_MAPPING, "" for a condition it does not hold
OPERATOR_MAPPING(condition) ==
    CASE condition = ">"  -> "$gt"
      [] condition = ">=" -> "$gte"
      [] condition = "<"  -> "$lt"
      [] condition = "<=" -> "$lte"
      [] condition = "==" -> "$eq"
      [] condition = "!=" -> "$ne"
      [] OTHER            -> ""

\* The base class of an exception class (exceptions.py; ValueError and
\* Exception are built in), "" for BaseException
ExceptionBase(e) ==
    CASE e = "InvalidOperator"      -> "AggifyBaseException"
      [] e = "AggifyBaseException" -> "Exception"
      [] e = "ValueError"          -> "Exception"
      [] e = "Exception"           -> "BaseException"
      [] OTHER                     -> ""

\* Whether `except cls` catches an exception of class e
RECURSIVE Catches(_, _)
Catches(cls, e) == e # "" /\ (e = cls \/ Catches(cls, ExceptionBase(e)))

\* Cond(value1, condition, value2, then_value, else_value): [res, cond];
\* _map_condition raises InvalidOperator before then_value is stored
Cond_init(value1, condition, value2, then_value, else_value) ==
    IF OPERATOR_MAPPING(condition) # ""
    THEN [res |-> "ok",
          cond |-> [kind |-> "Cond", operator |-> OPERATOR_MAPPING(condition), d |-> EmptyDict,
                    items |-> <<value1, value2, then_value, else_value>>]]
    ELSE [res |-> "InvalidOperator", cond |-> [kind |-> "none"]]

\* A faulty variant of clean_then_else: upper() without replace("$", "")
clean_then_else_upper_only(value) ==
    CASE value \in {"DESCEND", "descend"} -> "DESCEND"
      [] value \in {"PRUNE", "prune"}     -> "PRUNE"
      [] value \in {"KEEP", "keep"}       -> "KEEP"
      [] OTHER                            -> value

\* value.replace("$", "").upper() on the spellings of the three actions;
\* any other text is no action in any spelling
clean_then_else(value) ==
    CASE value \in {"DESCEND", "$DESCEND", "$$DESCEND", "descend", "$descend"} -> "DESCEND"
      [] value \in {"PRUNE", "$PRUNE", "$$PRUNE", "prune", "$prune"}           -> "PRUNE"
      [] value \in {"KEEP", "$KEEP", "$$KEEP", "keep", "$keep"}                -> "KEEP"
      [] OTHER                                                                 -> value

redact_values == {"DESCEND", "PRUNE", "KEEP"}

RedactStage(cond, v1, v2, t, e) ==
    [kind |-> "$redact", cond |-> cond, value1 |-> v1, value2 |-> v2, then |-> t, else |-> e]

redact_body(st, value1, condition, value2, then_value, else_value) ==
    LET t == clean_then_else(then_value)
        e == clean_then_else(else_value)
    IN  IF t \notin redact_values \/ e \notin redact_values
        THEN Raise(st, "InvalidArgument")
        ELSE IF OPERATOR_MAPPING(condition) = ""
        THEN Raise(st, "InvalidOperator")
        ELSE Ok(AppendStage(st, RedactStage(OPERATOR_MAPPING(condition), value1, value2,
                                            "$$" \o t, "$$" \o e)))

redact(st, value1, condition, value2, then_value, else_value) ==
    last_out_stage_check(st, redact_body(st, value1, condition, value2, then_value, else_value))


(***************************************************************************)
(* compiler.Q and compiler.F as objects.  objs is the sequence of the      *)
(* mutable objects behind the caller's values; an object is referred to by *)
(* its index.  An object is                                                *)
(*   kind "dict"  the conditions dict of one Q object: d maps a key to its *)
(*                constraint, or to ListRef(l) under "$and", "$or", "$not" *)
(*   kind "list"  a list of conditions dicts: items holds their indices    *)
(*   kind "node"  the dict {operator: [operands]} of an F expression       *)
(*   kind "F"     an F object: items holds its field, one operand          *)
(* An operand is a text (a "$field" or a constant) or a node.              *)
(***************************************************************************)
DictObject(d) == [kind |-> "dict", operator |-> "", d |-> d, items |-> <<>>]
ListObject(items) == [kind |-> "list", operator |-> "", d |-> EmptyDict, items |-> items]
NodeObject(operator, operands) ==
    [kind |-> "node", operator |-> operator, d |-> EmptyDict, items |-> operands]
FObject(field) == [kind |-> "F", operator |-> "", d |-> EmptyDict, items |-> <<field>>]
ListRef(l) == [list |-> l]
Leaf(text) == [leaf |-> text, ref |-> 0]
NodeRef(n) == [leaf |-> "", ref |-> n]

Combinators == {"$and", "$or", "$not"}

\* The objects an object refers to
Children(o, i) ==
    CASE o[i].kind = "dict" -> {o[i].d[k].list : k \in DOMAIN o[i].d \cap Combinators}
      [] o[i].kind = "list" -> {o[i].items[j] : j \in 1..Len(o[i].items)}
      [] OTHER -> {o[i].items[j].ref : j \in 1..Len(o[i].items)} \ {0}

\* The objects reachable from those of S
RECURSIVE Reachable(_, _)
Reachable(o, S) ==
    LET T == S \cup UNION {Children(o, i) : i \in S}
    IN  IF T = S THEN S ELSE Reachable(o, T)

\* dict(q)["$match"] written out: the conditions dict q with every list
\* replaced by the sequence of the dicts it holds
RECURSIVE Serialized(_, _)
Serialized(o, q) ==
    [k \in DOMAIN o[q].d |->
        IF k \in Combinators
        THEN LET l == o[q].d[k].list
             IN  [j \in 1..Len(o[l].items) |-> Serialized(o, o[l].items[j])]
        ELSE o[q].d[k]]

\* Q(**conditions) for conditions whose keys hold no "__" and whose values
\* are no F: Match.compile stores every value under its key in a new dict.
Q_init(conditions) == DictObject([k \in DOMAIN conditions |-> conditions[k]])

\* A faulty variant of Q_combine: the result always nests its operands
Q_combine_nested(o, self, other, combinator) ==
    LET o1 == Append(o, ListObject(<<self, other>>))
    IN  [objs |-> Append(o1, Q_init(combinator :> ListRef(Len(o1)))),
         result |-> Len(o) + 2]

\* Q.__or__ / Q.__and__ with combinator "$or" / "$and": [objs, result]
Q_combine(o, self, other, combinator) ==
    IF combinator \in DOMAIN o[self].d
    THEN LET l == o[self].d[combinator].list
             o1 == [o EXCEPT ![l].items = Append(@, other)]
         IN  [objs |-> Append(o1, Q_init(o1[self].d)), result |-> Len(o) + 1]
    ELSE LET o1 == Append(o, ListObject(<<self, other>>))
         IN  [objs |-> Append(o1, Q_init(combinator :> ListRef(Len(o1)))),
              result |-> Len(o) + 2]


\* Q.__invert__
Q_invert(o, self) ==
    LET o1 == Append(o, ListObject(<<self>>))
    IN  [objs |-> Append(o1, Q_init("$not" :> ListRef(Len(o1)))), result |-> Len(o) + 2]

\* F.to_dict() written out: an operand with every node replaced by its
\* operator and the sequence of its operands
RECURSIVE to_dict(_, _)
to_dict(o, operand) ==
    IF operand.ref = 0 THEN [operator |-> "", operands |-> <<>>, leaf |-> operand.leaf]
    ELSE [operator |-> o[operand.ref].operator,
          operands |-> [j \in 1..Len(o[operand.ref].items) |->
                            to_dict(o, o[operand.ref].items[j])],
          leaf |-> ""]

\* A faulty variant of F_combine: the result always nests its operands
F_combine_nested(o, self, other, operator) ==
    LET field == o[self].items[1]
        o1 == Append(o, NodeObject(operator, <<field, other>>))
    IN  [objs |-> Append(o1, FObject(NodeRef(Len(o1)))), result |-> Len(o) + 2]

\* F.__add__, __sub__, __mul__, __truediv__ with operator "$add",
\* "$subtract", "$multiply", "$divide"; self is an F object, other the
\* operand (other.field for an F, the constant otherwise): [objs, result]
F_combine(o, self, other, operator) ==
    LET field == o[self].items[1] IN
    IF field.ref # 0 /\ o[field.ref].operator = operator
    THEN LET o1 == [o EXCEPT ![field.ref].items = Append(@, other)]
         IN  [objs |-> Append(o1, FObject(field)), result |-> Len(o) + 1]
    ELSE LET o1 == Append(o, NodeObject(operator, <<field, other>>))
         IN  [objs |-> Append(o1, FObject(NodeRef(Len(o1)))), result |-> Len(o) + 2]


(***************************************************************************)
(* Aggify.filter with a Q object of the heap o.  dict(arg) is               *)
(* {"$match": arg.conditions}: the stage holds the conditions dict of the  *)
(* object itself.  Such a stage carries the index of the object (ref); its *)
(* m is o[ref].d.  The outcome is [st, res, objs].                         *)
(***************************************************************************)
SharedStage(o, q) == [kind |-> "$match", m |-> o[q].d, ref |-> q]
RefOf(s) == IF "ref" \in DOMAIN s THEN s.ref ELSE 0
\* stage["$match"] as it is now
DictOf(o, s) == IF RefOf(s) # 0 THEN o[RefOf(s)].d ELSE s.m

\* {"$match": match_stage} of the dict cur, which is that of object ref
\* when ref is not 0
MergedStage(cur, ref) ==
    IF ref = 0 THEN MatchStage(cur) ELSE [kind |-> "$match", m |-> cur, ref |-> ref]

\* The stages with the dicts of their objects written out
Resolved(p, o) ==
    [i \in 1..Len(p) |-> IF RefOf(p[i]) # 0 THEN [p[i] EXCEPT !.m = o[p[i].ref].d] ELSE p[i]]

\* __combine_sequential_matches on stages that may hold the dict of an
\* object: match_stage.update(...) changes the dict of the first match
\* stage of a run where it is.  ref is the object whose dict match_stage
\* is (0: the dict of no object).
RECURSIVE CombineSharedLoop(_, _, _, _, _, _, _)
CombineSharedLoop(p, i, merged, has, cur, ref, o) ==
    IF i > Len(p)
    THEN [pipelines |-> Resolved(IF has THEN Append(merged, MergedStage(cur, ref)) ELSE merged, o),
          objs |-> o]
    ELSE IF p[i].kind = "$match" /\ DOMAIN DictOf(o, p[i]) # {}
         THEN IF ~has
              THEN CombineSharedLoop(p, i + 1, merged, TRUE, DictOf(o, p[i]), RefOf(p[i]), o)
              ELSE LET updated == Update(cur, DictOf(o, p[i]))
                       o1 == IF ref = 0 THEN o ELSE [o EXCEPT ![ref].d = updated]
                   IN  CombineSharedLoop(p, i + 1, merged, TRUE, updated, ref, o1)
         ELSE IF has
              THEN CombineSharedLoop(p, i + 1, Append(Append(merged, MergedStage(cur, ref)), p[i]),
                                     FALSE, EmptyDict, 0, o)
              ELSE CombineSharedLoop(p, i + 1, Append(merged, p[i]), FALSE, EmptyDict, 0, o)

\* filter(o[q], **kwargs), or filter(**kwargs) when q = 0
filter_object(st, o, q, kwargs) ==
    LET st1 == IF q # 0 THEN AppendStage(st, SharedStage(o, q)) ELSE st
        r == to_aggregate(st1, kwargs)
    IN  IF Len(st.pipelines) > 0 /\ OutTruthy(LastStage(st.pipelines))
        THEN [st |-> st, res |-> "OutStageError", objs |-> o]
        ELSE IF r.res # "ok" THEN [st |-> r.st, res |-> r.res, objs |-> o]
        ELSE LET c == CombineSharedLoop(r.st.pipelines, 1, <<>>, FALSE, EmptyDict, 0, o)
             IN  [st |-> [r.st EXCEPT !.pipelines = c.pipelines], res |-> "ok", objs |-> c.objs]

(***************************************************************************)
(* The state machine: one builder made from PostDocument, and a sibling    *)
(* builder made from the same model that is only observed.                 *)
(***************************************************************************)
BuilderInit == copy_class(DeclaredHeap, PostDocument)
SiblingInit == copy_class(BuilderInit.heap, PostDocument)
\* The sibling's base_model
Sibling == SiblingInit.cls

State == St(pipelines, heap, base)

\* The builder call o with outcome r
Do(o, outcome) ==
    \E r \in {outcome} :
    /\ pipelines' = r.st.pipelines
    /\ heap' = r.st.heap
    /\ base' = r.st.base
    /\ op' = o
    /\ res' = r.res
    /\ pre' = State
    /\ objs' = objs

Init ==
    /\ pipelines = <<>>
    /\ heap = SiblingInit.heap
    /\ base = BuilderInit.cls
    /\ op = [name |-> "init"]
    /\ res = "ok"
    /\ pre = St(<<>>, SiblingInit.heap, BuilderInit.cls)
    /\ objs = <<>>

CanCall == Len(pipelines) < MaxStages

(***************************************************************************)
(* Inputs                                                                  *)
(***************************************************************************)
IntIndex(k) == [int |-> TRUE, n |-> k, start |-> 0, stop |-> 0, hasStep |-> FALSE]
SliceIndex(a, b, hs) == [int |-> FALSE, n |-> 0, start |-> a, stop |-> b, hasStep |-> hs]
IndexRange == (0 - 1) .. MaxIndex
Indices ==
    {IntIndex(k) : k \in IndexRange}
    \cup {SliceIndex(a, b, hs) : a \in IndexRange, b \in IndexRange, hs \in BOOLEAN}

Entry(k, v) == [key |-> k, value |-> Lit(v)]

\* Keyword entries on plain fields: caption and caption__contains share
\* the constraint key caption; id has the storage name _id.
PlainEntries ==
    {Entry(<<"caption">>, "x"), Entry(<<"caption">>, "y"),
     Entry(<<"caption", "contains">>, "x"), Entry(<<"id">>, "x")}
\* on the joined relation owner
JoinedEntries ==
    {Entry(<<"owner", "deleted_at">>, "None"), Entry(<<"owner", "username", "gt">>, "x")}
\* on the embedded document stat, and on a field that does not exist
OtherEntries ==
    {Entry(<<"stat", "like_count">>, "x"), Entry(<<"nosuch">>, "x")}

\* Two entries with different keys, in call order
Pairs(E1, E2) == {<<p[1], p[2]>> : p \in {q \in E1 \X E2 : q[1].key # q[2].key}}

\* **kwargs of the filter calls
KwargsSet ==
    {<<e>> : e \in PlainEntries \cup JoinedEntries \cup OtherEntries}
    \cup Pairs(PlainEntries, PlainEntries)
    \cup Pairs({Entry(<<"caption">>, "x")}, {Entry(<<"owner", "deleted_at">>, "None")})
    \cup Pairs({Entry(<<"owner", "deleted_at">>, "None")}, {Entry(<<"caption">>, "x")})
    \cup Pairs(JoinedEntries, JoinedEntries)

\* Q(), Q(caption="y")
QArgs == {QArg(Q(<<>>).m), QArg(Q(<<Entry(<<"caption">>, "y")>>).m)}

CustomStage == [kind |-> "$customStage", val |-> "x"]

(***************************************************************************)
(* Actions                                                                 *)
(***************************************************************************)
GetItem(I) ==
    \E index \in I :
        /\ CanCall
        /\ Do([name |-> "getitem", index |-> index], getitem(State, index))

Out(C) ==
    \E coll \in C, hasDb \in BOOLEAN :
        /\ CanCall
        /\ Do([name |-> "out", coll |-> coll],
              out(State, coll, hasDb, IF hasDb THEN "db" ELSE ""))

Filter(A, K) ==
    \E arg \in A, kwargs \in K :
        /\ CanCall
        /\ Do([name |-> "filter", arg |-> arg, kwargs |-> kwargs],
              filter(State, arg, kwargs))

Raw(R) ==
    \E raw_query \in R :
        /\ CanCall
        /\ Do([name |-> "raw", raw_query |-> raw_query], raw(State, raw_query))

Project(K) ==
    \E kwargs \in K :
        /\ CanCall
        /\ Do([name |-> "project", kwargs |-> kwargs], project(State, kwargs))

Group(E) ==
    \E expression \in E :
        /\ CanCall
        /\ Do([name |-> "group", expression |-> expression], group(State, expression))

OrderBy(F) ==
    \E order_fields \in F :
        /\ CanCall
        /\ Do([name |-> "order_by", order_fields |-> order_fields],
              order_by(State, order_fields))

AddFields(F) ==
    \E fields \in F :
        /\ CanCall
        /\ Do([name |-> "add_fields", fields |-> fields], add_fields(State, fields))

Unwind(P) ==
    \E path \in P, preserve \in BOOLEAN :
        /\ CanCall
        /\ Do([name |-> "unwind", path |-> path, preserve |-> preserve],
              unwind(State, path, "", preserve))

Annotate(A) ==
    \E a \in A :
        /\ CanCall
        /\ Do([name |-> "annotate", args |-> a],
              annotate(State, a.annotate_name, a.accumulator, a.f, a.kwargs))

Lookup(L) ==
    \E a \in L :
        /\ CanCall
        /\ Do([name |-> "lookup", args |-> a],
              lookup(State, a.from_collection, a.as_name, a.query, a.let,
                     a.local_field, a.foreign_field, a.raw_let))

ReplaceRoot(R) ==
    \E a \in R :
        /\ CanCall
        /\ Do([name |-> "replace_root", args |-> a],
              replace_root(State, a.embedded_field, a.merge))

ReplaceWith(R) ==
    \E a \in R :
        /\ CanCall
        /\ Do([name |-> "replace_with", args |-> a],
              replace_with(State, a.embedded_field, a.merge))

Redact(R) ==
    \E a \in R :
        /\ CanCall
        /\ Do([name |-> "redact", args |-> a],
              redact(State, a.value1, a.condition, a.value2, a.then_value, a.else_value))

(***************************************************************************)
(* Actions on Q and F values.  op records the call with the objects as     *)
(* they were before it (before) and the index of the object it returned    *)
(* (result).                                                               *)
(***************************************************************************)
Objects(kind) == {i \in 1..Len(objs) : objs[i].kind = kind}
Returned(o, r) ==
    /\ objs' = r.objs
    /\ op' = [o EXCEPT !.result = r.result, !.before = objs]
    /\ res' = "ok"
    /\ UNCHANGED <<pipelines, heap, base, pre>>

\* q = Q(**kwargs)
QNew(K) ==
    \E kwargs \in K :
        /\ Len(objs) < MaxObjects
        /\ Q(kwargs).res = "ok"
        /\ Returned([name |-> "Q", kwargs |-> kwargs, result |-> 0, before |-> <<>>],
                    [objs |-> Append(objs, Q_init(Q(kwargs).m)), result |-> Len(objs) + 1])

\* r = x & y, r = x | y for Q objects x, y; a call that would put a list
\* into itself is not made
QCombine ==
    \E self \in Objects("dict"), other \in Objects("dict"), combinator \in {"$and", "$or"} :
        /\ Len(objs) + 1 < MaxObjects
        /\ combinator \in DOMAIN objs[self].d
              => objs[self].d[combinator].list \notin Reachable(objs, {other})
        /\ Returned([name |-> "Q.combine", self |-> self, other |-> other,
                     combinator |-> combinator, result |-> 0, before |-> <<>>],
                    Q_combine(objs, self, other, combinator))

\* r = ~x
QInvert ==
    \E self \in Objects("dict") :
        /\ Len(objs) + 1 < MaxObjects
        /\ Returned([name |-> "Q.__invert__", self |-> self, result |-> 0, before |-> <<>>],
                    Q_invert(objs, self))

\* f = F(field)
FNew(N) ==
    \E field \in N :
        /\ Len(objs) < MaxObjects
        /\ Returned([name |-> "F", field |-> field, result |-> 0, before |-> <<>>],
                    [objs |-> Append(objs, FObject(Leaf(FField(field).v))), result |-> Len(objs) + 1])

ArithmeticOperators == {"$add", "$subtract", "$multiply", "$divide"}

\* r = x + y, x - y, x * y, x / y for an F object x and y an F object or a
\* constant; a call that would put a node into itself is not made
FCombine(C) ==
    \E self \in Objects("F"), operator \in ArithmeticOperators,
       other \in {objs[i].items[1] : i \in Objects("F")} \cup C :
        /\ Len(objs) + 1 < MaxObjects
        /\ objs[self].items[1].ref = 0
              \/ objs[self].items[1].ref \notin Reachable(objs, {other.ref} \ {0})
        /\ Returned([name |-> "F.combine", self |-> self, other |-> other,
                     operator |-> operator, result |-> 0, before |-> <<>>],
                    F_combine(objs, self, other, operator))

\* filter(q, **kwargs) for a Q object q of the heap (0: no Q object)
FilterObject(K) ==
    \E q \in Objects("dict") \cup {0}, kwargs \in K :
        /\ CanCall
        /\ \E r \in {filter_object(State, objs, q, kwargs)} :
              /\ pipelines' = r.st.pipelines
              /\ heap' = r.st.heap
              /\ base' = r.st.base
              /\ objs' = r.objs
              /\ op' = [name |-> "filter", q |-> q, kwargs |-> kwargs, before |-> objs]
              /\ res' = r.res
              /\ pre' = State
\* c = Cond(value1, condition, value2, then_value, else_value)
CondNew(V, C) ==
    \E value1 \in V, condition \in C, value2 \in V, then_value \in V, else_value \in V :
        LET r == Cond_init(value1, condition, value2, then_value, else_value) IN
        /\ Len(objs) < MaxObjects
        /\ objs' = IF r.res = "ok" THEN Append(objs, r.cond) ELSE objs
        /\ op' = [name |-> "Cond", condition |-> condition, before |-> objs,
                  result |-> IF r.res = "ok" THEN Len(objs) + 1 ELSE 0]
        /\ res' = r.res
        /\ UNCHANGED <<pipelines, heap, base, pre>>

(***************************************************************************)
(* SpecIndex: index and slice access, after filter and out calls.          *)
(***************************************************************************)
IndexGetItem == GetItem(Indices)
IndexOut == Out({"coll"})
IndexFilter == Filter({NoArg}, {<<Entry(<<"caption">>, "x")>>})
NextIndex == IndexGetItem \/ IndexOut \/ IndexFilter
SpecIndex == Init /\ [][NextIndex]_vars

(***************************************************************************)
(* SpecFilter: filter calls with keyword entries and predicate objects,    *)
(* between raw stages and slices.                                          *)
(***************************************************************************)
FilterKwargs == Filter({NoArg}, KwargsSet)
FilterQ == Filter(QArgs, {<<>>})
FilterRaw == Raw({CustomStage})
FilterGetItem == GetItem({IntIndex(1)})
NextFilter == FilterKwargs \/ FilterQ \/ FilterRaw \/ FilterGetItem
SpecFilter == Init /\ [][NextFilter]_vars

(***************************************************************************)
(* Spec: every builder method, each on a few arguments.                    *)
(***************************************************************************)
KwEntry(k, v) == [key |-> k, value |-> v]

\* project(caption=1), project(stat=0), project(extra="$caption")
ProjectArgs ==
    {<<KwEntry("caption", IntVal(1))>>, <<KwEntry("stat", IntVal(0))>>,
     <<KwEntry("extra", StrVal("$caption"))>>}

\* group("caption"), group(None)
GroupArgs == {StrExpr(<<"caption">>), NoneExpr}

\* order_by("-caption")
OrderByArgs == {<<[desc |-> TRUE, name |-> "caption"]>>}

\* add_fields(extra="x")
AddFieldsArgs == {<<KwEntry(<<"extra">>, [t |-> "str", v |-> "x"])>>}

AnnotateArgs(n, a, f, kw) == [annotate_name |-> n, accumulator |-> a, f |-> f, kwargs |-> kw]
\* annotate("total", "sum", "caption"), annotate("total", "nope", "caption"),
\* annotate(newest={"$first": "$caption"})
AnnotateSet ==
    {AnnotateArgs("total", "sum", StrF(<<"caption">>), <<>>),
     AnnotateArgs("total", "nope", StrF(<<"caption">>), <<>>),
     AnnotateArgs("", "", OtherF(""),
                  <<KwEntry("newest", [isDict |-> TRUE, acc |-> "first", v |-> "$caption"])>>)}

LookupArgs(c, as, q, l, lf, ff, rl) ==
    [from_collection |-> c, as_name |-> as, query |-> q, let |-> l,
     local_field |-> lf, foreign_field |-> ff, raw_let |-> rl]
\* lookup(AccountDocument, as_name="acc", local_field="owner", foreign_field="id"),
\* lookup(AccountDocument, as_name="acc", query=[Q(id__exact="owner")], let=["owner"]),
\* lookup(AccountDocument, as_name="acc")
LookupSet ==
    {LookupArgs(AccountDocument, "acc", <<>>, <<>>, <<"owner">>, <<"id">>, EmptyDict),
     LookupArgs(AccountDocument, "acc", <<Q(<<Entry(<<"id", "exact">>, "owner")>>).m>>,
                <<<<"owner">>>>, <<>>, <<>>, EmptyDict),
     LookupArgs(AccountDocument, "acc", <<>>, <<>>, <<>>, <<>>, EmptyDict)}

ReplaceArgs(f, m) == [embedded_field |-> f, merge |-> m]
\* replace_root(embedded_field="stat"),
\* replace_root(embedded_field="acc", merge={"extra": "0"})
ReplaceRootSet == {ReplaceArgs("stat", EmptyDict), ReplaceArgs("acc", "extra" :> "0")}
\* replace_with(embedded_field="acc"), replace_with(embedded_field="caption")
ReplaceWithSet == {ReplaceArgs("acc", EmptyDict), ReplaceArgs("caption", EmptyDict)}

RedactArgs(v1, c, v2, t, e) ==
    [value1 |-> v1, condition |-> c, value2 |-> v2, then_value |-> t, else_value |-> e]
\* redact("$caption", "==", "x", "$KEEP", "prune"),
\* redact("$caption", "==", "x", "keep", "drop")
RedactSet ==
    {RedactArgs("$caption", "==", "x", "$KEEP", "prune"),
     RedactArgs("$caption", "==", "x", "keep", "drop")}

DoFilter == Filter({NoArg}, {<<Entry(<<"caption">>, "x")>>})
DoProject == Project(ProjectArgs)
DoGroup == Group(GroupArgs)
DoAnnotate == Annotate(AnnotateSet)
DoOrderBy == OrderBy(OrderByArgs)
DoAddFields == AddFields(AddFieldsArgs)
DoLookup == Lookup(LookupSet)
DoUnwind == Unwind({<<"stat">>})
DoReplaceRoot == ReplaceRoot(ReplaceRootSet)
DoReplaceWith == ReplaceWith(ReplaceWithSet)
DoRedact == Redact(RedactSet)
DoRaw == Raw({CustomStage})
DoOut == Out({"coll"})
DoGetItem == GetItem({IntIndex(1)})

Next ==
    \/ DoFilter \/ DoProject \/ DoGroup \/ DoAnnotate \/ DoOrderBy \/ DoAddFields
    \/ DoLookup \/ DoUnwind \/ DoReplaceRoot \/ DoReplaceWith \/ DoRedact \/ DoRaw
    \/ DoOut \/ DoGetItem

Spec == Init /\ [][Next]_vars


(***************************************************************************)
(* SpecProject: project calls that include, exclude and compute fields,    *)
(* between filter calls on the fields they keep or remove.                 *)
(***************************************************************************)
\* project(caption=1), project(stat=0), project(id=0),
\* project(extra="$caption"), project(caption="$stat"),
\* project(caption=1, stat=0), project(stat=0, caption=1),
\* project(id=0, caption=1), project(caption=1, stat="$caption")
ProjectKwargsSet ==
    {<<KwEntry("caption", IntVal(1))>>,
     <<KwEntry("stat", IntVal(0))>>,
     <<KwEntry("id", IntVal(0))>>,
     <<KwEntry("extra", StrVal("$caption"))>>,
     <<KwEntry("caption", StrVal("$stat"))>>,
     <<KwEntry("caption", IntVal(1)), KwEntry("stat", IntVal(0))>>,
     <<KwEntry("stat", IntVal(0)), KwEntry("caption", IntVal(1))>>,
     <<KwEntry("id", IntVal(0)), KwEntry("caption", IntVal(1))>>,
     <<KwEntry("caption", IntVal(1)), KwEntry("stat", StrVal("$caption"))>>}

ProjectProject == Project(ProjectKwargsSet)
ProjectFilter ==
    Filter({NoArg}, {<<Entry(<<f>>, "x")>> : f \in {"caption", "stat", "extra"}})
NextProject == ProjectProject \/ ProjectFilter
SpecProject == Init /\ [][NextProject]_vars


(***************************************************************************)
(* SpecLookup: joins in both modes, with as_name fresh or taken, on a      *)
(* schema view that project and add_fields have changed, and filters on    *)
(* the joined fields.                                                      *)
(***************************************************************************)
JoinOn(c, as, lf, ff) == LookupArgs(c, as, <<>>, <<>>, lf, ff, EmptyDict)
\* lookup(AccountDocument, as_name=n, local_field="owner", foreign_field="id")
\*   for n in acc, owner, extra, caption,
\* lookup(PostDocument, as_name="p", local_field="caption", foreign_field="caption"),
\* lookup(AccountDocument, as_name="acc"),
\* lookup(AccountDocument, as_name="acc", let=["caption"]),
\* lookup(AccountDocument, as_name="acc", let=["owner"], query=[Q(id__exact="owner")]),
\* lookup(AccountDocument, as_name="acc", raw_let={"uid": "$owner_id"},
\*        query=[Q(id__exact="uid")])
LookupJoinSet ==
    {JoinOn(AccountDocument, n, <<"owner">>, <<"id">>) : n \in {"acc", "owner", "extra", "caption"}}
    \cup {JoinOn(PostDocument, "p", <<"caption">>, <<"caption">>),
          JoinOn(AccountDocument, "acc", <<>>, <<>>),
          LookupArgs(AccountDocument, "acc", <<>>, <<<<"caption">>>>, <<>>, <<>>, EmptyDict),
          LookupArgs(AccountDocument, "acc", <<Q(<<Entry(<<"id", "exact">>, "owner")>>).m>>,
                     <<<<"owner">>>>, <<>>, <<>>, EmptyDict),
          LookupArgs(AccountDocument, "acc", <<Q(<<Entry(<<"id", "exact">>, "uid")>>).m>>,
                     <<>>, <<>>, <<>>, "uid" :> "$owner_id")}

\* filter(acc__username="x"), filter(p__owner="x"), filter(acc__nosuch="x"),
\* filter(stat__nosuch="x"), filter(nosuch="x")
LookupFilterKwargs ==
    {<<Entry(<<"acc", "username">>, "x")>>, <<Entry(<<"p", "owner">>, "x")>>,
     <<Entry(<<"acc", "nosuch">>, "x")>>, <<Entry(<<"stat", "nosuch">>, "x")>>,
     <<Entry(<<"nosuch">>, "x")>>}

LookupLookup == Lookup(LookupJoinSet)
LookupFilter == Filter({NoArg}, LookupFilterKwargs)
LookupProject == Project({<<KwEntry("caption", IntVal(1))>>})
LookupAddFields == AddFields(AddFieldsArgs)
NextLookup == LookupLookup \/ LookupFilter \/ LookupProject \/ LookupAddFields
SpecLookup == Init /\ [][NextLookup]_vars


(***************************************************************************)
(* SpecOps: filter calls with one keyword on a plain field, for every      *)
(* operator of the vocabulary with a literal and with an F value, and for  *)
(* suffixes outside the vocabulary.                                        *)
(***************************************************************************)
\* filter(caption__<op>="x"), filter(caption__<op>=F("stat")),
\* filter(id__<op>="x"), filter(caption=F("stat")),
\* filter(caption__aggify="x"), filter(caption__gt__foo="x"),
\* filter(caption__aggify__gt="x")
OpsKwargs ==
    {<<[key |-> <<"caption", o>>, value |-> v]>> :
         o \in ALL_OPERATORS, v \in {Lit("x"), FField("stat")}}
    \cup {<<Entry(<<"id", o>>, "x")>> : o \in {"exact", "icontains", "gte"}}
    \cup {<<[key |-> <<"caption">>, value |-> FField("stat")]>>,
          <<Entry(<<"caption", "aggify">>, "x")>>,
          <<Entry(<<"caption", "gt", "foo">>, "x")>>,
          <<Entry(<<"caption", "aggify", "gt">>, "x")>>}

OpsFilter == Filter({NoArg}, OpsKwargs)
NextOps == OpsFilter
SpecOps == Init /\ [][NextOps]_vars


(***************************************************************************)
(* SpecUnwind: unwind on paths through plain, embedded, referenced and     *)
(* lookup-introduced fields, resolving and not.                            *)
(***************************************************************************)
\* unwind("stat"), unwind("stat__like_count"), unwind("owner__id"),
\* unwind("acc__username"), unwind("nosuch"), unwind("stat__nosuch"),
\* unwind("caption__like_count")
UnwindPaths ==
    {<<"stat">>, <<"stat", "like_count">>, <<"owner", "id">>, <<"acc", "username">>,
     <<"nosuch">>, <<"stat", "nosuch">>, <<"caption", "like_count">>}

UnwindUnwind == Unwind(UnwindPaths)
UnwindLookup == Lookup({JoinOn(AccountDocument, "acc", <<"owner">>, <<"id">>)})
NextUnwind == UnwindUnwind \/ UnwindLookup
SpecUnwind == Init /\ [][NextUnwind]_vars


(***************************************************************************)
(* SpecQ: Q objects made from keywords and combined with &, | and ~.       *)
(* SpecF: F objects made from field names and combined with +, -, *, /.    *)
(***************************************************************************)
\* Q(caption="a"), Q(id__gt="b")
QKwargs == {<<Entry(<<"caption">>, "a")>>, <<Entry(<<"id", "gt">>, "b")>>}
QQNew == QNew(QKwargs)
NextQ == QQNew \/ QCombine \/ QInvert
SpecQ == Init /\ [][NextQ]_vars

\* F("a"), F("b"); the constant 2
FNames == {"a", "b"}
FConstants == {Leaf("2")}
FFNew == FNew(FNames)
FFCombine == FCombine(FConstants)
NextF == FFNew \/ FFCombine
SpecF == Init /\ [][NextF]_vars


(***************************************************************************)
(* SpecGroup: group with no, an empty, a resolving and a non-resolving     *)
(* expression.  SpecAnnotate: annotate on one group stage, for every       *)
(* accumulator and every kind of value.                                    *)
(***************************************************************************)
\* group(), group(None), group(""), group([]), group({}), group("owner"),
\* group("stat__like_count"), group("nosuch"), group(["caption"]),
\* group(["nosuch"])
GroupExpressions ==
    {AbsentExpr, NoneExpr, StrExpr(<<"">>), ListExpr(<<>>), DictExpr(EmptyDict),
     StrExpr(<<"owner">>), StrExpr(<<"stat", "like_count">>), StrExpr(<<"nosuch">>),
     ListExpr(<<<<"caption">>>>), ListExpr(<<<<"nosuch">>>>)}
GroupGroup == Group(GroupExpressions)
NextGroup == GroupGroup
SpecGroup == Init /\ [][NextGroup]_vars

\* annotate("total", acc, "caption") for every accumulator and for "nope",
\* annotate("total", "sum", v) for v "stat__like_count", "owner__username",
\* "nosuch", "caption__like_count", 5 and F("caption") * 2
AnnotateValues ==
    {AnnotateArgs("total", a, StrF(<<"caption">>), <<>>) :
         a \in PlainAccumulators \cup EmbeddedAccumulators \cup {"nope"}}
    \cup {AnnotateArgs("total", "sum", f, <<>>) :
              f \in {StrF(<<"stat", "like_count">>), StrF(<<"owner", "username">>),
                     StrF(<<"nosuch">>), StrF(<<"caption", "like_count">>), OtherF("5"),
                     ExprF("{$multiply: [$caption, 2]}")}}
\* annotate("_id", "sum", "caption"), annotate("caption", "sum", "caption"),
\* annotate(newest={"$first": "$caption"})
AnnotateNames ==
    {AnnotateArgs("_id", "sum", StrF(<<"caption">>), <<>>),
     AnnotateArgs("caption", "sum", StrF(<<"caption">>), <<>>),
     AnnotateArgs("", "", OtherF(""),
                  <<KwEntry("newest", [isDict |-> TRUE, acc |-> "first", v |-> "$caption"])>>)}
AnnotateGroup == pipelines = <<>> /\ Group({NoneExpr, StrExpr(<<"owner">>)})
AnnotateAnnotate == Annotate(AnnotateValues \cup AnnotateNames)
\* filter(total="x"), filter(newest__gt="x")
AnnotateFilter ==
    Filter({NoArg}, {<<Entry(<<"total">>, "x")>>, <<Entry(<<"newest", "gt">>, "x")>>})
NextAnnotate == AnnotateGroup \/ AnnotateAnnotate \/ AnnotateFilter
SpecAnnotate == Init /\ [][NextAnnotate]_vars


(***************************************************************************)
(* SpecEmbedded: filter on fields nested in embedded documents, one and    *)
(* two levels deep, with and without an operator.                          *)
(***************************************************************************)
\* filter(stat__like_count="x"), filter(stat__like_count__gt="x"),
\* filter(stat__detail__views="x"), filter(stat__detail__views__gt="x"),
\* filter(stat__detail="x"), filter(caption="x")
EmbeddedKwargs ==
    {<<Entry(k, "x")>> : k \in {<<"stat", "like_count">>, <<"stat", "like_count", "gt">>,
                                <<"stat", "detail", "views">>,
                                <<"stat", "detail", "views", "gt">>,
                                <<"stat", "detail">>, <<"caption">>}}
EmbeddedFilter == Filter({NoArg}, EmbeddedKwargs)
EmbeddedUnwind == Unwind({<<"stat">>})
NextEmbedded == EmbeddedFilter \/ EmbeddedUnwind
SpecEmbedded == Init /\ [][NextEmbedded]_vars


(***************************************************************************)
(* SpecFailure: calls that fail after part of their work, beside calls     *)
(* that succeed and calls that fail at once.                               *)
(***************************************************************************)
\* filter(Q(caption="y"), nosuch="x"), filter(Q(caption="y"), caption="x"),
\* filter(caption="x", nosuch="x"), filter(nosuch="x")
FailureFilter ==
    Filter({QArg(Q(<<Entry(<<"caption">>, "y")>>).m)},
           {<<Entry(<<"nosuch">>, "x")>>, <<Entry(<<"caption">>, "x")>>})
    \/ Filter({NoArg}, {<<Entry(<<"caption">>, "x"), Entry(<<"nosuch">>, "x")>>,
                        <<Entry(<<"nosuch">>, "x")>>})
\* add_fields(extra="x", bad=5), add_fields(extra="x")
FailureAddFields ==
    AddFields({<<KwEntry(<<"extra">>, [t |-> "str", v |-> "x"]),
                 KwEntry(<<"bad">>, [t |-> "other", v |-> "5"])>>,
               <<KwEntry(<<"extra">>, [t |-> "str", v |-> "x"])>>})
\* project(caption=0, nosuch=0), project(caption=1, stat=0)
FailureProject ==
    Project({<<KwEntry("caption", IntVal(0)), KwEntry("nosuch", IntVal(0))>>,
             <<KwEntry("caption", IntVal(1)), KwEntry("stat", IntVal(0))>>})
FailureGroup == Group({NoneExpr})
\* annotate(newest={"$first": "$caption"}, worst={"$nope": "$caption"}),
\* annotate("total", "nope", "caption")
FailureAnnotate ==
    Annotate({AnnotateArgs("", "", OtherF(""),
                  <<KwEntry("newest", [isDict |-> TRUE, acc |-> "first", v |-> "$caption"]),
                    KwEntry("worst", [isDict |-> TRUE, acc |-> "nope", v |-> "$caption"])>>),
              AnnotateArgs("total", "nope", StrF(<<"caption">>), <<>>)})
\* lookup(AccountDocument, as_name="acc"),
\* lookup(AccountDocument, as_name="acc", local_field="nosuch", foreign_field="id")
FailureLookup ==
    Lookup({JoinOn(AccountDocument, "acc", <<>>, <<>>),
            JoinOn(AccountDocument, "acc", <<"nosuch">>, <<"id">>)})
NextFailure ==
    \/ FailureFilter \/ FailureAddFields \/ FailureProject \/ FailureGroup
    \/ FailureAnnotate \/ FailureLookup
SpecFailure == Init /\ [][NextFailure]_vars


(***************************************************************************)
(* SpecRedact: redact with every spelling of the three actions and with    *)
(* other tokens, on a supported and on an unsupported comparison.          *)
(***************************************************************************)
ActionSpellings ==
    {"DESCEND", "$DESCEND", "$$DESCEND", "descend", "$descend",
     "PRUNE", "$PRUNE", "$$PRUNE", "prune", "$prune",
     "KEEP", "$KEEP", "$$KEEP", "keep", "$keep"}
OtherTokens == {"drop", "$", "123"}
\* redact("$caption", c, "x", t, e) for c "==" and "~", with t any token
\* and e "$KEEP" or "drop", or t "KEEP" and e any token
RedactTokens ==
    {RedactArgs("$caption", c, "x", t, e) :
         c \in {"==", "~"}, t \in ActionSpellings \cup OtherTokens, e \in {"$KEEP", "drop"}}
    \cup {RedactArgs("$caption", c, "x", "KEEP", e) :
              c \in {"==", "~"}, e \in ActionSpellings \cup OtherTokens}
RedactRedact == Len(pipelines) < 2 /\ Redact(RedactTokens)
NextRedact == RedactRedact
SpecRedact == Init /\ [][NextRedact]_vars


(***************************************************************************)
(* Properties.  They are read off the last call: op and res, the state pre *)
(* before it and the state after it.                                       *)
(***************************************************************************)
\* The stage list's last entry is an output stage
LastIsOut(p) == Len(p) > 0 /\ p[Len(p)].kind = "$out"

\* The stages the last call added at the end of the stage list
Added == SubSeq(pipelines, Len(pre.pipelines) + 1, Len(pipelines))
KeepsPrefix == /\ Len(pipelines) >= Len(pre.pipelines)
               /\ SubSeq(pipelines, 1, Len(pre.pipelines)) = pre.pipelines
Unchanged == pipelines = pre.pipelines /\ heap = pre.heap /\ base = pre.base

IndexCall == op.name = "getitem"
\* start and stop of the last index access: builder[n] is builder[0:n]
StartOf(index) == IF index.int THEN 0 ELSE index.start
StopOf(index) == IF index.int THEN index.n ELSE index.stop

\* C8: for a slice [a:b] with 0 <= a < b (an integer n > 0 being [0:n]),
\* index access on a builder whose last stage is not an output stage appends
\* exactly two stages, {$skip: a} and then {$limit: b - a}, also when a = 0.
C8_SliceAppendsSkipThenLimit ==
    (/\ IndexCall
     /\ ~op.index.hasStep
     /\ 0 <= StartOf(op.index)
     /\ StartOf(op.index) < StopOf(op.index)
     /\ ~LastIsOut(pre.pipelines))
    => /\ res = "ok"
       /\ KeepsPrefix
       /\ Added = <<[kind |-> "$skip", n |-> StartOf(op.index)],
                    [kind |-> "$limit", n |-> StopOf(op.index) - StartOf(op.index)]>>

C8_Witness ==
    /\ IndexCall
    /\ op.index = SliceIndex(0, MaxIndex, FALSE)
    /\ res = "ok"
    /\ Len(pre.pipelines) > 0
    /\ Len(Added) = 2

\* C9: a successful index access emits a skip stage only when the start is
\* greater than 0, and builder[0] leaves the stage list unchanged.
C9_SkipOnlyWhenPositive ==
    (IndexCall /\ res = "ok")
    => /\ (StartOf(op.index) = 0 => \A i \in 1..Len(Added) : Added[i].kind # "$skip")
       /\ (op.index = IntIndex(0) => pipelines = pre.pipelines)

\* A negative integer, a slice with a step, a negative start, or start >= stop
InvalidIndex(index) ==
    IF index.int THEN index.n < 0
    ELSE index.hasStep \/ index.start < 0 \/ index.start >= index.stop

\* C10: index access with a negative integer, a slice with a step, a
\* negative start, or start >= stop (start = stop included) raises
\* MongoIndexError and appends no stage.
C10_InvalidIndexRaises ==
    (IndexCall /\ InvalidIndex(op.index) /\ ~LastIsOut(pre.pipelines))
    => res = "MongoIndexError" /\ pipelines = pre.pipelines


(***************************************************************************)
(* Properties of filter.                                                   *)
(***************************************************************************)
FilterCall == op.name = "filter"
PreFields == pre.heap[pre.base]

\* A keyword entry on a plain field: the field alone or with one operator
PlainEntry(e) ==
    /\ e.key[1] \in DOMAIN PreFields
    /\ PreFields[e.key[1]].t = "plain"
    /\ (Len(e.key) = 1 \/ (Len(e.key) = 2 /\ e.key[2] \in ALL_OPERATORS))

\* A keyword entry whose leading field is a joined relation followed by a
\* nested field (and at most one operator)
JoinedEntry(e) ==
    /\ e.key[1] \in DOMAIN PreFields
    /\ PreFields[e.key[1]].t = "ref"
    /\ Len(e.key) > 1
    /\ e.key[2] \notin ALL_OPERATORS
    /\ (Len(e.key) = 2 \/ (Len(e.key) = 3 /\ e.key[3] \in ALL_OPERATORS))

\* C2: whenever a filter call has returned, the stage list holds no two
\* consecutive match stages.
C2_NoConsecutiveMatches ==
    (FilterCall /\ res = "ok")
    => \A i \in 1..(Len(pipelines) - 1) :
          ~(pipelines[i].kind = "$match" /\ pipelines[i + 1].kind = "$match")

\* The key a plain entry constrains, and the constraint it compiles to
KeyOf(e) == PreFields[e.key[1]].db
ConstraintOf(e) == Match_compile(pre.heap, pre.base, <<e>>, <<>>).m[KeyOf(e)]

\* C3: a successful filter call with keyword entries on plain fields, on a
\* builder that holds nothing or the one match stage of earlier such calls,
\* leaves exactly one match stage; its constraint map has the keys of the
\* earlier map and of all entries, and under each key the constraint of the
\* last entry with that key, or the earlier constraint when no entry has it.
C3_PlainFilterUnion ==
    (/\ FilterCall
     /\ ~op.arg.given
     /\ Len(op.kwargs) > 0
     /\ \A i \in 1..Len(op.kwargs) : PlainEntry(op.kwargs[i])
     /\ \/ pre.pipelines = <<>>
        \/ (Len(pre.pipelines) = 1 /\ MatchTruthy(pre.pipelines[1])))
    => LET m0 == IF pre.pipelines = <<>> THEN EmptyDict ELSE pre.pipelines[1].m
           kw == op.kwargs
           Last(k) == CHOOSE i \in 1..Len(kw) :
                          /\ KeyOf(kw[i]) = k
                          /\ \A j \in (i + 1)..Len(kw) : KeyOf(kw[j]) # k
       IN  /\ res = "ok"
           /\ Len(pipelines) = 1
           /\ pipelines[1].kind = "$match"
           /\ DOMAIN pipelines[1].m = DOMAIN m0 \cup {KeyOf(kw[i]) : i \in 1..Len(kw)}
           /\ \A k \in DOMAIN pipelines[1].m :
                 IF \E i \in 1..Len(kw) : KeyOf(kw[i]) = k
                 THEN pipelines[1].m[k] = ConstraintOf(kw[Last(k)])
                 ELSE pipelines[1].m[k] = m0[k]

\* Two entries of one call collide on the key caption, over an earlier
\* constraint on caption and one on _id
C3_Witness ==
    /\ FilterCall
    /\ res = "ok"
    /\ op.kwargs = <<Entry(<<"caption", "contains">>, "x"), Entry(<<"caption">>, "y")>>
    /\ Len(pre.pipelines) = 1
    /\ MatchTruthy(pre.pipelines[1])
    /\ DOMAIN pre.pipelines[1].m = {"caption", "_id"}
    /\ pipelines = <<MatchStage(Update(pre.pipelines[1].m, "caption" :> Constraint("", "y", "")))>>

\* C5: a successful filter call with an entry on relation__nested emits,
\* after the stages the builder held, a join stage from the related
\* collection with the relation's storage field as local key, directly
\* followed by an unwind stage that preserves null and empty values,
\* directly followed by a match stage constraining 'relation.nested'; the
\* plain entries given before it in the call are in a match stage before
\* the join stage.
C5_JoinedFilterOrder ==
    (/\ FilterCall
     /\ ~op.arg.given
     /\ \A i \in 1..Len(op.kwargs) : PlainEntry(op.kwargs[i]) \/ JoinedEntry(op.kwargs[i]))
    => \A i \in 1..Len(op.kwargs) :
          JoinedEntry(op.kwargs[i]) =>
            LET e == op.kwargs[i]
                rel == PreFields[e.key[1]]
            IN  /\ res = "ok"
                /\ \E j \in (Len(pre.pipelines) + 1)..(Len(pipelines) - 2) :
                      /\ pipelines[j].kind = "$lookup"
                      /\ pipelines[j].from = Collection(rel.target)
                      /\ pipelines[j].localField = rel.db
                      /\ pipelines[j].foreignField = "_id"
                      /\ pipelines[j + 1].kind = "$unwind"
                      /\ pipelines[j + 1].preserve
                      /\ pipelines[j + 2].kind = "$match"
                      /\ (e.key[1] \o "." \o e.key[2]) \in DOMAIN pipelines[j + 2].m
                      /\ \A i0 \in 1..(i - 1) :
                            PlainEntry(op.kwargs[i0]) =>
                              \E j0 \in 1..(j - 1) :
                                  /\ pipelines[j0].kind = "$match"
                                  /\ KeyOf(op.kwargs[i0]) \in DOMAIN pipelines[j0].m

C5_Witness ==
    /\ FilterCall
    /\ res = "ok"
    /\ op.kwargs = <<Entry(<<"caption">>, "x"), Entry(<<"owner", "deleted_at">>, "None")>>
    /\ pre.pipelines = <<CustomStage>>
    /\ Len(pipelines) = 5
    /\ pipelines[2].kind = "$match"
    /\ pipelines[3].kind = "$lookup"
    /\ pipelines[4].kind = "$unwind"
    /\ pipelines[5] = MatchStage("owner.deleted_at" :> Constraint("", "None", ""))

\* C6: a successful filter call with two or more keys on the same joined
\* relation emits exactly one join stage and exactly one unwind stage.
CountKind(p, k) == Cardinality({i \in 1..Len(p) : p[i].kind = k})

C6_OneJoinPerRelation ==
    (/\ FilterCall
     /\ res = "ok"
     /\ \E i \in 1..Len(op.kwargs), j \in 1..Len(op.kwargs) :
           /\ i # j
           /\ JoinedEntry(op.kwargs[i])
           /\ JoinedEntry(op.kwargs[j])
           /\ op.kwargs[i].key[1] = op.kwargs[j].key[1])
    => /\ CountKind(pipelines, "$lookup") = CountKind(pre.pipelines, "$lookup") + 1
       /\ CountKind(pipelines, "$unwind") = CountKind(pre.pipelines, "$unwind") + 1


(***************************************************************************)
(* Properties of the whole builder.                                        *)
(***************************************************************************)
StageAppendingMethods ==
    {"filter", "project", "group", "annotate", "order_by", "add_fields", "lookup",
     "unwind", "replace_root", "replace_with", "redact", "raw", "out", "getitem"}

\* C1: once the last stage of the stage list is an output stage, every
\* stage-appending method called next fails with OutStageError.
C1_NothingSucceedsAfterOut ==
    (op.name \in StageAppendingMethods /\ LastIsOut(pre.pipelines))
    => res = "OutStageError"

\* C4: whatever the builder has been asked to do, the model it was created
\* from, the models it was handed in lookup (and those they embed) and a
\* sibling builder made from the same model have the fields they had at
\* the start.
C4_ModelsKeepTheirFields ==
    /\ heap[PostDocument] = PostFields
    /\ heap[AccountDocument] = AccountFields
    /\ heap[PostStat] = PostStatFields
    /\ heap[Sibling] = PostFields

\* The builder joined AccountDocument in, took the joined class as its root
\* and added a field to it
C4_Witness ==
    /\ op.name = "replace_root"
    /\ res = "ok"
    /\ op.args.embedded_field = "acc"
    /\ \E i \in 1..Len(pipelines) :
          pipelines[i].kind = "$lookup" /\ pipelines[i].from = Collection(AccountDocument)
    /\ base # pre.base
    /\ DOMAIN heap[base] = DOMAIN AccountFields \cup {"extra"}

\* C7: annotate succeeds only when the last stage is a group stage; on an
\* empty stage list it raises AnnotationError saying the pipeline is empty,
\* after a stage of another kind AnnotationError naming that kind, and in
\* both cases it leaves the stage list and the schema view as they were.
C7_AnnotateNeedsGroup ==
    op.name = "annotate"
    => /\ res = "ok" =>
            (pre.pipelines # <<>> /\ LastStage(pre.pipelines).kind = "$group")
       /\ pre.pipelines = <<>> =>
            /\ res = "AnnotationError: Annotations apply only to $group, your pipeline is empty"
            /\ Unchanged
       /\ (pre.pipelines # <<>> /\ LastStage(pre.pipelines).kind # "$group") =>
            /\ res = "AnnotationError: Annotations apply only to $group, not to "
                        \o LastStage(pre.pipelines).kind
            /\ Unchanged

C7_Witness ==
    /\ op.name = "annotate"
    /\ pre.pipelines # <<>>
    /\ LastStage(pre.pipelines).kind = "$match"
    /\ res = "AnnotationError: Annotations apply only to $group, not to $match"
    /\ pipelines = pre.pipelines
    /\ heap[base] # PostFields


(***************************************************************************)
(* Properties of project.                                                  *)
(***************************************************************************)
ProjectCall == op.name = "project"
\* The keys of the last project call that have value v
KeysValued(v) == {op.kwargs[i].key : i \in {j \in 1..Len(op.kwargs) : op.kwargs[j].value = v}}
ProjectKeys == {op.kwargs[i].key : i \in 1..Len(op.kwargs)}
\* A field valued 1 and a field valued 0, the identifier not counted
MixedProjection ==
    KeysValued(IntVal(1)) \ {"id"} # {} /\ KeysValued(IntVal(0)) \ {"id"} # {}

C12_SchemaMatchesProjection ==
    (ProjectCall /\ res = "ok")
    => LET zero == KeysValued(IntVal(0))
       IN  IF ProjectKeys \ zero # {}
           THEN DOMAIN heap[base] =
                    (({"id"} \cap DOMAIN PreFields) \ zero) \cup (ProjectKeys \ zero)
           ELSE DOMAIN heap[base] = DOMAIN PreFields \ zero


(***************************************************************************)
(* Properties of lookup.                                                   *)
(***************************************************************************)
LookupCall == op.name = "lookup"
\* The mode of the last lookup call
LetMode == op.args.let # <<>> \/ DOMAIN op.args.raw_let # {}
FieldsMode == op.args.local_field # <<>> /\ op.args.foreign_field # <<>>
MissingArguments == (~LetMode /\ ~FieldsMode) \/ (LetMode /\ op.args.query = <<>>)

C14_TakenNameRaises ==
    (LookupCall /\ op.args.as_name \in DOMAIN PreFields)
    => res = "AlreadyExistsField" /\ pipelines = pre.pipelines

\* The storage name field f has in the schema of class c
StorageName(h, c, f) == IF h[c][f].db = "" THEN f ELSE h[c][f].db

\* C15: after a successful lookup registered n, filter(n__f=v) on a field f
\* of the joined collection emits no join or unwind stage and ends in a
\* match stage constraining 'n.' followed by the storage name f has in the
\* joined collection's schema.
C15_FilterOnJoinedField ==
    (/\ FilterCall
     /\ Len(op.kwargs) = 1
     /\ Len(op.kwargs[1].key) = 2
     /\ op.kwargs[1].key[1] \in DOMAIN PreFields
     /\ PreFields[op.kwargs[1].key[1]].t = "cls"
     /\ op.kwargs[1].key[2] \in DOMAIN pre.heap[PreFields[op.kwargs[1].key[1]].target])
    => LET n == op.kwargs[1].key[1]
           f == op.kwargs[1].key[2]
       IN  /\ res = "ok"
           /\ CountKind(pipelines, "$lookup") = CountKind(pre.pipelines, "$lookup")
           /\ CountKind(pipelines, "$unwind") = CountKind(pre.pipelines, "$unwind")
           /\ LastStage(pipelines).kind = "$match"
           /\ (n \o "." \o StorageName(pre.heap, PreFields[n].target, f))
                 \in DOMAIN LastStage(pipelines).m

\* C16: in the sub-pipeline of a successful correlated lookup no value
\* names a variable bound by let or raw_let other than in the form
\* '$$name'.
C16_BoundVariablesReplaced ==
    (LookupCall /\ res = "ok" /\ LetMode)
    => LET bound == {JoinSegs(op.args.let[i], "__") : i \in 1..Len(op.args.let)}
                        \cup DOMAIN op.args.raw_let
           sub == LastStage(pipelines).pipeline
       IN  \A i \in 1..Len(sub) : \A k \in DOMAIN sub[i].expr : \A name \in bound :
              /\ sub[i].expr[k].lhs \notin {name, "$" \o name}
              /\ sub[i].expr[k].val \notin {name, "$" \o name}

\* C20: filter with one keyword raises InvalidField whenever the field path
\* of the key does not resolve in the schema view: the leading segment is
\* absent, or the segment after an embedded, joined or lookup-introduced
\* field is not a field of that field's target schema.
C20_UnresolvedPathRaises ==
    (/\ FilterCall
     /\ Len(op.kwargs) = 1
     /\ LET key == op.kwargs[1].key
        IN  \/ key[1] \notin DOMAIN PreFields
            \/ /\ Len(key) > 1
               /\ key[2] \notin ALL_OPERATORS
               /\ PreFields[key[1]].t \in {"emb", "ref", "cls"}
               /\ key[2] \notin DOMAIN pre.heap[PreFields[key[1]].target])
    => res = "InvalidField"


(***************************************************************************)
(* Properties of the operator vocabulary.                                  *)
(***************************************************************************)
\* The last call was filter with the one keyword field__suffix on a plain
\* field of the schema view
OneKeywordOnPlainField ==
    /\ FilterCall
    /\ ~op.arg.given
    /\ Len(op.kwargs) = 1
    /\ op.kwargs[1].key[1] \in DOMAIN PreFields
    /\ PreFields[op.kwargs[1].key[1]].t = "plain"
OpsKey == op.kwargs[1].key
OpsValue == op.kwargs[1].value
OpsStorageName == StorageName(pre.heap, pre.base, OpsKey[1])

\* The operator table for a literal v
TableOperator(o) ==
    CASE o = "exact" -> "$eq"
      [] o \in {"iexact", "contains", "icontains", "startswith", "istartswith",
                "endswith", "iendswith"} -> "$regex"
      [] o = "in" -> "$in"
      [] o = "nin" -> "$nin"
      [] o = "ne" -> "$ne"
      [] o = "lt" -> "$lt"
      [] o = "lte" -> "$lte"
      [] o = "gt" -> "$gt"
      [] o = "gte" -> "$gte"
TableValue(o, v) ==
    CASE o \in {"iexact"} -> "^" \o v \o "$"
      [] o \in {"startswith", "istartswith"} -> "^" \o v
      [] o \in {"endswith", "iendswith"} -> v \o "$"
      [] OTHER -> v
TableOption(o) ==
    IF o \in {"iexact", "icontains", "istartswith", "iendswith"} THEN "i" ELSE ""
TableExprOperator(o) == IF o = "exact" THEN "$eq" ELSE "$" \o o
TableOperators ==
    {"exact", "iexact", "contains", "icontains", "startswith", "istartswith",
     "endswith", "iendswith", "in", "nin", "ne", "lt", "lte", "gt", "gte"}

C18_FOnlyWithComparison ==
    (/\ OneKeywordOnPlainField
     /\ Len(OpsKey) = 2
     /\ OpsValue.isF)
    => IF OpsKey[2] \in {"lt", "lte", "gt", "gte"}
       THEN /\ res = "ok"
            /\ LastStage(pipelines).m["$expr"]
                  = [op |-> "$" \o OpsKey[2], lhs |-> "$" \o OpsStorageName, rhs |-> OpsValue.v]
       ELSE res \in {"InvalidOperator", "ValueError"}

\* C18: an F operand is accepted with lt, lte, gt, gte and with exact, in,
\* nin, ne, not, where the constraint is an $expr of the operator applied to
\* '$' followed by the storage name and to the expression; with a text
\* operator the call raises ValueError, and with no operator or one outside
\* the vocabulary InvalidOperator; a failed call appends nothing.
C18_FWithNonTextOperators ==
    (/\ OneKeywordOnPlainField
     /\ OpsValue.isF)
    => IF Len(OpsKey) = 2 /\ OpsKey[2] \in {"lt", "lte", "gt", "gte", "exact", "in", "nin", "ne", "not"}
       THEN /\ res = "ok"
            /\ LastStage(pipelines).kind = "$match"
            /\ LastStage(pipelines).m["$expr"]
                  = [op |-> TableExprOperator(OpsKey[2]), lhs |-> "$" \o OpsStorageName,
                     rhs |-> OpsValue.v]
       ELSE IF Len(OpsKey) = 2 /\ OpsKey[2] \in {"iexact", "contains", "icontains", "startswith",
                                                "istartswith", "endswith", "iendswith"}
       THEN res = "ValueError" /\ pipelines = pre.pipelines
       ELSE res = "InvalidOperator" /\ pipelines = pre.pipelines

\* An equality test against an F expression
C18_Witness ==
    /\ OneKeywordOnPlainField
    /\ OpsKey = <<"caption", "exact">>
    /\ OpsValue.isF
    /\ res = "ok"
    /\ LastStage(pipelines).m["$expr"] = [op |-> "$eq", lhs |-> "$caption", rhs |-> "$stat"]

\* C19: a filter key on a plain field whose suffix after the field name is
\* not exactly one operator of the vocabulary raises InvalidOperator and
\* appends no stage.
C19_BadSuffixRaises ==
    (/\ OneKeywordOnPlainField
     /\ Len(OpsKey) > 1
     /\ ~(Len(OpsKey) = 2 /\ OpsKey[2] \in ALL_OPERATORS))
    => res = "InvalidOperator" /\ pipelines = pre.pipelines


(***************************************************************************)
(* Properties of path resolution.                                          *)
(***************************************************************************)
UnwindCall == op.name = "unwind"

\* The schema a path continues in after field f of class c: the target
\* schema of an embedded, joined or lookup-introduced field, none after a
\* non-relation field
TargetSchema(h, c, f) == IF h[c][f].t = "plain" THEN NoClass ELSE h[c][f].target

\* Whether every segment of segs is a field at its level, from class c on
RECURSIVE Resolves(_, _, _)
Resolves(h, c, segs) ==
    \/ segs = <<>>
    \/ /\ c # NoClass
       /\ Head(segs) \in DOMAIN h[c]
       /\ Resolves(h, TargetSchema(h, c, Head(segs)), Tail(segs))

\* The storage names of the segments joined by dots
RECURSIVE DottedPath(_, _, _)
DottedPath(h, c, segs) ==
    IF Len(segs) = 1 THEN StorageName(h, c, segs[1])
    ELSE StorageName(h, c, segs[1]) \o "." \o
         DottedPath(h, TargetSchema(h, c, segs[1]), Tail(segs))

\* C21: unwind on a double-underscore path appends a stage on '$' followed
\* by the storage names of the segments joined by dots when every segment
\* is a field at its level; otherwise, a segment after a non-relation field
\* included, it raises InvalidField and appends nothing.
C21_PathResolution ==
    UnwindCall =>
        IF Resolves(pre.heap, pre.base, op.path)
        THEN /\ res = "ok"
             /\ Len(Added) = 1 /\ KeepsPrefix
             /\ LastStage(pipelines).path = "$" \o DottedPath(pre.heap, pre.base, op.path)
        ELSE res = "InvalidField" /\ Unchanged


(***************************************************************************)
(* Properties of Q and F values.                                           *)
(***************************************************************************)
\* C22: r = p1 & p2 (p1 | p2) serializes to {$and: [c1, c2]} ({$or: ...})
\* of the operands' constraints c1, c2, except that when p1 is itself a
\* combination with the same combinator its list is continued with c2, so
\* a chain gives one flat list in order; r = ~p1 serializes to {$not: [c1]}.
C22_CombinatorsSerialize ==
    /\ op.name = "Q.combine" =>
          LET c1 == Serialized(op.before, op.self)
              c2 == Serialized(op.before, op.other)
              r == Serialized(objs, op.result)
          IN  IF op.combinator \in DOMAIN c1
              THEN /\ DOMAIN r = DOMAIN c1
                   /\ Len(r[op.combinator]) = Len(c1[op.combinator]) + 1
                   /\ \A j \in 1..Len(c1[op.combinator]) :
                         r[op.combinator][j] = c1[op.combinator][j]
                   /\ r[op.combinator][Len(r[op.combinator])] = c2
              ELSE /\ DOMAIN r = {op.combinator}
                   /\ Len(r[op.combinator]) = 2
                   /\ r[op.combinator][1] = c1
                   /\ r[op.combinator][2] = c2
    /\ op.name = "Q.__invert__" =>
          LET r == Serialized(objs, op.result)
          IN  /\ DOMAIN r = {"$not"}
              /\ Len(r["$not"]) = 1
              /\ r["$not"][1] = Serialized(op.before, op.self)

\* A chain of three predicates with &
C22_Witness ==
    /\ op.name = "Q.combine"
    /\ op.combinator = "$and"
    /\ DOMAIN Serialized(objs, op.result) = {"$and"}
    /\ Len(Serialized(objs, op.result)["$and"]) = 3
    /\ \A j \in 1..3 : DOMAIN Serialized(objs, op.result)["$and"][j] \cap Combinators = {}

\* C23: r = x op y for an arithmetic operator serializes to
\* {op: [left, right]} of the operands' serialized forms, except that when
\* x is itself a node of the same operator its operand list is continued
\* with y, so a chain gives one flat operand list in call order.
C23_ArithmeticSerialize ==
    op.name = "F.combine" =>
        LET left == to_dict(op.before, op.before[op.self].items[1])
            right == to_dict(op.before, op.other)
            r == to_dict(objs, objs[op.result].items[1])
        IN  /\ r.operator = op.operator
            /\ IF left.operator = op.operator
               THEN /\ Len(r.operands) = Len(left.operands) + 1
                    /\ \A j \in 1..Len(left.operands) : r.operands[j] = left.operands[j]
                    /\ r.operands[Len(r.operands)] = right
               ELSE /\ Len(r.operands) = 2
                    /\ r.operands[1] = left
                    /\ r.operands[2] = right

\* (F(a) * F(b)) * F(a): one node with three operands
C23_Witness ==
    /\ op.name = "F.combine"
    /\ op.operator = "$multiply"
    /\ to_dict(objs, objs[op.result].items[1]).operator = "$multiply"
    /\ Len(to_dict(objs, objs[op.result].items[1]).operands) = 3
    /\ \A j \in 1..3 : to_dict(objs, objs[op.result].items[1]).operands[j].operator = ""


(***************************************************************************)
(* Properties of group and annotate.                                       *)
(***************************************************************************)
GroupCall == op.name = "group"
EmptyExpression ==
    \/ op.expression.t \in {"absent", "none"}
    \/ op.expression.t = "str" /\ op.expression.field = <<"">>
    \/ op.expression.t = "list" /\ op.expression.fields = <<>>
    \/ op.expression.t = "dict" /\ DOMAIN op.expression.d = {}

\* C24: group called with no expression or with an empty one (None, "", [],
\* {}) appends one group stage whose grouping key is null.
C24_EmptyGroupKeyIsNull ==
    (GroupCall /\ EmptyExpression)
    => /\ res = "ok"
       /\ Len(Added) = 1
       /\ LastStage(pipelines).kind = "$group"
       /\ LastStage(pipelines).id.t = "none"

\* C25: group never raises InvalidField: in the field-name form and in the
\* list form a name that does not resolve in the schema view is the
\* grouping value as it is, and a name that resolves becomes '$' followed
\* by its dotted storage path.
C25_GroupFallsBackToLiteral ==
    (GroupCall /\ ~EmptyExpression /\ op.expression.t \in {"str", "list"})
    => LET value(segs) == IF Resolves(pre.heap, pre.base, segs)
                          THEN "$" \o DottedPath(pre.heap, pre.base, segs)
                          ELSE JoinSegs(segs, "__")
       IN  /\ res = "ok"
           /\ Len(Added) = 1
           /\ LastStage(pipelines).kind = "$group"
           /\ op.expression.t = "str"
                 => LastStage(pipelines).id = GroupId("str", value(op.expression.field), EmptyDict)
           /\ op.expression.t = "list"
                 => /\ LastStage(pipelines).id.t = "dict"
                    /\ \A i \in 1..Len(op.expression.fields) :
                          LET name == JoinSegs(op.expression.fields[i], "__")
                          IN  /\ name \in DOMAIN LastStage(pipelines).id.d
                              /\ LastStage(pipelines).id.d[name] = value(op.expression.fields[i])

AnnotateCall == op.name = "annotate"
Accumulators ==
    {"sum", "avg", "stdDevPop", "stdDevSamp", "push", "addToSet", "count", "first", "last",
     "max", "accumulator", "min", "median", "mergeObjects", "top", "bottom", "topN",
     "bottomN", "firstN", "lastN", "maxN"}

\* C26: on a group stage, annotate(name, acc, value) with an accumulator of
\* the fixed set writes {name: {$acc: x}} into that stage, x being '$' and
\* the dotted storage path for a string that resolves, the string itself
\* when it does not resolve, and the value (an F expression serialized)
\* otherwise; another accumulator raises AnnotationError.
C26_AnnotateValue ==
    (/\ AnnotateCall
     /\ op.args.kwargs = <<>>
     /\ pre.pipelines # <<>>
     /\ LastStage(pre.pipelines).kind = "$group")
    => IF op.args.accumulator \in Accumulators
       THEN /\ res = "ok"
            /\ Len(pipelines) = Len(pre.pipelines)
            /\ op.args.annotate_name \in DOMAIN LastStage(pipelines).acc
            /\ LastStage(pipelines).acc[op.args.annotate_name]
                  = [acc |-> "$" \o op.args.accumulator,
                     v |-> IF op.args.f.t # "str" THEN op.args.f.v
                           ELSE IF Resolves(pre.heap, pre.base, op.args.f.field)
                           THEN "$" \o DottedPath(pre.heap, pre.base, op.args.f.field)
                           ELSE JoinSegs(op.args.f.field, "__")]
       ELSE res = "AnnotationError: Invalid accumulator" /\ pipelines = pre.pipelines


(***************************************************************************)
(* Properties of filters on embedded documents.                            *)
(***************************************************************************)
\* The key of the one keyword without its trailing operator, if any
PathOfKey(key) ==
    IF Len(key) > 1 /\ key[Len(key)] \in ALL_OPERATORS THEN SubSeq(key, 1, Len(key) - 1)
    ELSE key
\* Whether every segment of segs but the last is an embedded field at its
\* level, from class c on, and the last is a field of the innermost schema
RECURSIVE EmbeddedPath(_, _, _)
EmbeddedPath(h, c, segs) ==
    /\ segs # <<>>
    /\ c # NoClass
    /\ Head(segs) \in DOMAIN h[c]
    /\ Len(segs) > 1 => /\ h[c][Head(segs)].t = "emb"
                        /\ EmbeddedPath(h, h[c][Head(segs)].target, Tail(segs))

\* C27: filter with one keyword on a field nested in an embedded document,
\* at any depth and optionally followed by one operator, succeeds, emits no
\* join or unwind stage and leaves in the last match stage the constraint
\* keyed by the storage names of the path joined by dots.
C27_EmbeddedFilter ==
    (/\ FilterCall
     /\ ~op.arg.given
     /\ Len(op.kwargs) = 1
     /\ Len(PathOfKey(op.kwargs[1].key)) > 1
     /\ EmbeddedPath(pre.heap, pre.base, PathOfKey(op.kwargs[1].key)))
    => LET key == op.kwargs[1].key
           path == PathOfKey(key)
           dotted == DottedPath(pre.heap, pre.base, path)
       IN  /\ res = "ok"
           /\ CountKind(pipelines, "$lookup") = CountKind(pre.pipelines, "$lookup")
           /\ CountKind(pipelines, "$unwind") = CountKind(pre.pipelines, "$unwind")
           /\ LastStage(pipelines).kind = "$match"
           /\ dotted \in DOMAIN LastStage(pipelines).m
           /\ LastStage(pipelines).m[dotted]
                 = IF path = key THEN Constraint("", op.kwargs[1].value.v, "")
                   ELSE Constraint("$" \o key[Len(key)], op.kwargs[1].value.v, "")


(***************************************************************************)
(* Properties of failing calls and of the output stage.                    *)
(***************************************************************************)
\* C28: a builder call that raises leaves the stage list and the schema
\* view as they were before the call.
C28_FailureChangesNothing ==
    res # "ok" => Unchanged

\* C29: the stage list holds at most one $out stage, and a $out stage is
\* the last stage.
C29_OutIsLastAndOnly ==
    \A i \in 1..Len(pipelines) : pipelines[i].kind = "$out" => i = Len(pipelines)


(***************************************************************************)
(* Properties of redact.                                                   *)
(***************************************************************************)
RedactCall == op.name = "redact"
\* The spellings of an action that differ from it by '$' characters and
\* letter case only
SpellingsOf(upper, lower) == {upper, "$" \o upper, "$$" \o upper, lower, "$" \o lower}
\* The action a token spells, "" when it spells none
ActionOf(token) ==
    CASE token \in SpellingsOf("DESCEND", "descend") -> "DESCEND"
      [] token \in SpellingsOf("PRUNE", "prune") -> "PRUNE"
      [] token \in SpellingsOf("KEEP", "keep") -> "KEEP"
      [] OTHER -> ""

\* C30: redact whose then and else tokens spell DESCEND, PRUNE or KEEP, up
\* to '$' characters and letter case, appends (on a supported comparison)
\* exactly one redact stage whose branches are '$$' followed by the
\* upper-case action; with any other token it raises InvalidArgument and
\* appends nothing.
C30_RedactTokens ==
    RedactCall =>
        IF ActionOf(op.args.then_value) # "" /\ ActionOf(op.args.else_value) # ""
        THEN OPERATOR_MAPPING(op.args.condition) # ""
             => /\ res = "ok"
                /\ Len(Added) = 1
                /\ KeepsPrefix
                /\ LastStage(pipelines).kind = "$redact"
                /\ LastStage(pipelines).then = "$$" \o ActionOf(op.args.then_value)
                /\ LastStage(pipelines).else = "$$" \o ActionOf(op.args.else_value)
        ELSE res = "InvalidArgument" /\ Unchanged

\* A lower-case token with '$' beside an upper-case one, after another stage
C30_Witness ==
    /\ RedactCall
    /\ op.args.then_value = "$prune"
    /\ op.args.else_value = "$KEEP"
    /\ res = "ok"
    /\ pre.pipelines # <<>>
    /\ LastStage(pipelines).then = "$$PRUNE"
    /\ LastStage(pipelines).else = "$$KEEP"


(***************************************************************************)
(* SpecConvert: correlated lookups whose query holds one comparison of     *)
(* each kind.                                                              *)
(***************************************************************************)
ComparisonSuffixes == {"exact", "ne", "gt", "gte", "lt", "lte"}
MongoComparisons == {"$eq", "$ne", "$gt", "$gte", "$lt", "$lte"}
\* lookup(AccountDocument, as_name=n, let=["owner"], query=[Q(id__<op>="owner")])
ConvertSet ==
    {LookupArgs(AccountDocument, n, <<Q(<<Entry(<<"id", o>>, "owner")>>).m>>,
                <<<<"owner">>>>, <<>>, <<>>, EmptyDict) :
         n \in {"acc", "acc2", "acc3"}, o \in ComparisonSuffixes}
ConvertLookup == Lookup(ConvertSet)
NextConvert == ConvertLookup
SpecConvert == Init /\ [][NextConvert]_vars

\* C37: in the sub-pipeline of a successful correlated lookup, every
\* constraint {field: {op: value}} of a query predicate with op one of $eq,
\* $ne, $gt, $gte, $lt, $lte stands in expression form {op: ["$field",
\* value]} (the field possibly replaced by its bound variable).
C37_ComparisonsRewritten ==
    (LookupCall /\ res = "ok" /\ LetMode)
    => LET sub == LastStage(pipelines).pipeline
       IN  \A i \in 1..Len(op.args.query) : \A k \in DOMAIN op.args.query[i] :
               op.args.query[i][k].op \in MongoComparisons
               => \E nk \in DOMAIN sub[i].expr :
                      /\ sub[i].expr[nk].converted
                      /\ nk = op.args.query[i][k].op
                      /\ sub[i].expr[nk].op = op.args.query[i][k].op
                      /\ sub[i].expr[nk].lhs \in {"$" \o k, "$$" \o k}

\* C38: for one keyword k=v on a field that is no joined relation (a plain
\* field or a name that is not in the schema view), filter(k=v) and
\* filter(Q(k=v)) on the same builder state have the same outcome: the same
\* result or error, and the same stage list.
C38_PredicateAsKeywords ==
    (/\ FilterCall
     /\ ~op.arg.given
     /\ Len(op.kwargs) = 1
     /\ \/ op.kwargs[1].key[1] \notin DOMAIN PreFields
        \/ PreFields[op.kwargs[1].key[1]].t = "plain")
    => LET q == Q(op.kwargs)
           viaQ == IF q.res = "ok" THEN filter(pre, QArg(q.m), <<>>) ELSE Raise(pre, q.res)
       IN  /\ viaQ.res = res
           /\ viaQ.st.pipelines = pipelines

(***************************************************************************)
(* SpecCond: Cond objects made with the six comparison tokens and with     *)
(* other tokens.                                                           *)
(***************************************************************************)
CondTokens == {">", ">=", "<", "<=", "==", "!="}
CondOtherTokens == {"invalid_operator", "=", "$gt", ""}
CondValues == {Leaf("18"), Leaf("20"), Leaf("High")}
CondCond == objs = <<>> /\ CondNew(CondValues, CondTokens \cup CondOtherTokens)
NextCond == CondCond
SpecCond == Init /\ [][NextCond]_vars

\* C39: Cond(...) with a token outside >, >=, <, <=, == and != builds no
\* object and raises an error that `except ValueError` catches.
C39_BadTokenIsValueError ==
    (op.name = "Cond" /\ op.condition \notin CondTokens)
    => /\ res # "ok"
       /\ objs = op.before
       /\ Catches("ValueError", res)

\* C36: in the stages a successful joined filter call has added, every
\* join stage is followed by an unwind stage whose path is "$" and the name
\* the join stage writes to (as), and by a match stage whose keys start
\* with that name and a dot.
C36_UnwindsJoinedName ==
    (/\ FilterCall
     /\ res = "ok"
     /\ ~op.arg.given
     /\ Len(op.kwargs) = 1
     /\ JoinedEntry(op.kwargs[1]))
    => \A j \in (Len(pre.pipelines) + 1)..Len(pipelines) :
           pipelines[j].kind = "$lookup"
           => /\ j + 2 <= Len(pipelines)
              /\ pipelines[j + 1].kind = "$unwind"
              /\ pipelines[j + 1].path = "$" \o pipelines[j].as
              /\ pipelines[j + 2].kind = "$match"
              /\ (pipelines[j].as \o "." \o op.kwargs[1].key[2]) \in DOMAIN pipelines[j + 2].m

(***************************************************************************)
(* Properties of the stages that are no match stages.                      *)
(***************************************************************************)
IsNonMatch(s) == s.kind # "$match"
NonMatch(p) == SelectSeq(p, IsNonMatch)

\* C35: after every builder call the non-match stages that were there
\* before the call are the first non-match stages after it, in the same
\* order and with the same content; only annotate may change the content
\* of one of them, the group stage in last position.
C35_NonMatchStagesKept ==
    LET before == NonMatch(pre.pipelines)
        after == NonMatch(pipelines)
    IN  /\ Len(before) <= Len(after)
        /\ \A i \in 1..Len(before) :
              \/ after[i] = before[i]
              \/ /\ AnnotateCall
                 /\ i = Len(before)
                 /\ LastStage(pre.pipelines) = before[i]
                 /\ before[i].kind = "$group"
                 /\ after[i].kind = "$group"

\* A filter call on a builder that holds a match stage and a non-match
\* stage after it: the merge pass has run over both
C35_Witness ==
    /\ FilterCall
    /\ res = "ok"
    /\ Len(pre.pipelines) = 2
    /\ MatchTruthy(pre.pipelines[1])
    /\ IsNonMatch(pre.pipelines[2])
    /\ Len(pipelines) = 3
    /\ MatchTruthy(pipelines[3])

(***************************************************************************)
(* SpecShare: Q objects handed to filter, between filter calls with        *)
(* keywords and order_by calls.                                            *)
(***************************************************************************)
MaxShared == 2
\* Q(caption="a"), Q(id="b")
ShareKwargs == {<<Entry(<<"caption">>, "a")>>, <<Entry(<<"id">>, "b")>>}
\* filter(q), filter(caption="x"), filter(q, caption="x"), filter(nosuch="x")
ShareFilterKwargs == {<<>>, <<Entry(<<"caption">>, "x")>>, <<Entry(<<"nosuch">>, "x")>>}
ShareQNew == Len(objs) < MaxShared /\ QNew(ShareKwargs)
ShareFilter == FilterObject(ShareFilterKwargs)
ShareOrderBy == OrderBy(OrderByArgs)
NextShare == ShareQNew \/ ShareFilter \/ ShareOrderBy
SpecShare == Init /\ [][NextShare]_vars

\* C34: a filter call, with or without a Q object, leaves every Q object
\* with the serialized constraints it had before the call, the objects
\* handed to earlier filter calls of the builder included.
C34_PredicateNotTied ==
    (FilterCall /\ "before" \in DOMAIN op)
    => \A q \in 1..Len(op.before) : Serialized(objs, q) = Serialized(op.before, q)

\* C33: combining Q values with & or | leaves every Q value that existed
\* before the call, the two operands and the results of earlier
\* combinations among them, with the serialized form it had before.
C33_CombinationKeepsOperands ==
    op.name = "Q.combine"
    => \A q \in 1..Len(op.before) :
           op.before[q].kind = "dict" => Serialized(objs, q) = Serialized(op.before, q)

(***************************************************************************)
(* SpecMerge: filter calls whose constraints share a key: two operators on *)
(* one field, comparisons against F expressions, Q objects with the same   *)
(* top-level combinator.                                                   *)
(***************************************************************************)
\* (Q(**a) | Q(**b)).conditions and (Q(**a) & Q(**b)).conditions
CombinedConditions(operator, a, b) == operator :> <<Q(a).m, Q(b).m>>

MergeKwargs ==
    {<<[key |-> <<f, o>>, value |-> v]>> :
         f \in {"caption", "id"}, o \in {"gt", "lt"}, v \in {Lit("x"), FField("stat")}}
MergeQArgs ==
    {QArg(CombinedConditions(operator, <<Entry(<<"caption">>, a)>>, <<Entry(<<"id">>, "x")>>)) :
         operator \in {"$or", "$and"}, a \in {"x", "y"}}
MergeFilter == Filter({NoArg}, MergeKwargs)
MergeFilterQ == Filter(MergeQArgs, {<<>>})
NextMerge == MergeFilter \/ MergeFilterQ
SpecMerge == Init /\ [][NextMerge]_vars

\* The constraint stored under key k of match stage i of p is in some match
\* stage of q under the same key
Survives(p, i, k, q) ==
    \E j \in 1..Len(q) :
        /\ q[j].kind = "$match"
        /\ k \in DOMAIN q[j].m
        /\ q[j].m[k] = p[i].m[k]

\* C32: after a successful filter call every constraint that was in a match
\* stage before the call is still in a match stage: no constraint of an
\* earlier filter call is replaced by the merge pass.
C32_NoConstraintLost ==
    (FilterCall /\ res = "ok")
    => \A i \in 1..Len(pre.pipelines) :
           pre.pipelines[i].kind = "$match"
           => \A k \in DOMAIN pre.pipelines[i].m : Survives(pre.pipelines, i, k, pipelines)

(***************************************************************************)
(* Properties of annotate as an update of the group stage.                 *)
(***************************************************************************)
\* The output names of the last annotate call
AnnotateNamesOf ==
    IF op.args.kwargs = <<>> THEN {op.args.annotate_name}
    ELSE {op.args.kwargs[i].key : i \in 1..Len(op.args.kwargs)}

\* C31: a successful annotate keeps the length of the stage list and every
\* stage before the last; the last stage keeps its grouping key and holds
\* the output names of the call, whatever they are; the names are fields
\* of the schema view, and a later filter on such a name succeeds and ends
\* in a match stage.
C31_AnnotateUpdatesGroup ==
    /\ (AnnotateCall /\ res = "ok")
       => /\ Len(pipelines) = Len(pre.pipelines)
          /\ \A i \in 1..(Len(pipelines) - 1) : pipelines[i] = pre.pipelines[i]
          /\ LastStage(pipelines).kind = "$group"
          /\ LastStage(pipelines).id = LastStage(pre.pipelines).id
          /\ AnnotateNamesOf \subseteq DOMAIN LastStage(pipelines).acc
          /\ AnnotateNamesOf \subseteq DOMAIN heap[base]
    /\ (/\ FilterCall
        /\ Len(op.kwargs) = 1
        /\ op.kwargs[1].key[1] \in {"total", "newest"}
        /\ op.kwargs[1].key[1] \in DOMAIN PreFields)
       => res = "ok" /\ LastStage(pipelines).kind = "$match"


====
